---- MODULE Spec2Model ----
(***************************************************************************)
(* Model of the eoi-can telemetry core:                                    *)
(*   - CanCollector   (eoi-can-decoder/src/can_collector.rs)               *)
(*   - DisplayValue   (draw-display/src/lib.rs)                            *)
(*   - parse_eoi_can_data (eoi-can-decoder/src/lib.rs)                     *)
(* Each component has its own specification (SpecCollector,                *)
(* SpecDisplayValue, SpecDecoder); the variables of the other components   *)
(* stay at their initial value in it.                                      *)
(***************************************************************************)
EXTENDS Integers, Sequences, FiniteSets, TLC

VARIABLES
    latest_can_frames,   \* CanCollector.latest_can_frames: heapless::Vec<CanFrame, 100>
    dropped_frames,      \* CanCollector.dropped_frames: usize
    op,                  \* history: the last operation called on the collector
    pre,                 \* history: the collector as it was before that operation
    last_call,           \* history: per identifier, the last insert call with it since the last clear
    n_calls,             \* history: number of insert calls since the last clear
    distinct_calls,      \* history: no two insert calls since the last clear had the same identifier
    superseding_inserts, \* history: inserts since the last clear whose identifier was stored
    capacity_evictions,  \* history: inserts since the last clear that found a full collector and a new identifier
    ops,                 \* history: number of operations called (bounded by MaxOps)
    dv,                  \* one DisplayValue<T> cell: [value, last_updated]
    now,                 \* the monotonic clock read by Instant::now(), in seconds
    dv_log,              \* history: the last update call on the cell, [v, at], or Never
    dv_op,               \* history: the last step of the cell's environment
    frame,               \* the CanFrame handed to parse_eoi_can_data
    result,              \* what parse_eoi_can_data returned for it, or Pending
    display_data,        \* DisplayData: its DisplayValue cells, by field and index
    ingest_msg,          \* history: the message last handed to ingest_eoi_can_data
    ingest_pre,          \* history: the DisplayData before that call
    ingests,             \* history: number of ingest calls (bounded by MaxIngests)
    rendered,            \* the derived values draw_display computed last, or Pending
    encoded,             \* the identifier and bytes handed to CanFrame::from_encoded, and the crate called
    built,               \* what from_encoded returned for them, or Pending
    program,             \* which of the four programs runs
    clock,               \* the time since the loops started, in the unit of the program
    rx_pc,               \* where the receive task is: read, locking, locked, send, dead
    rx_item,             \* the frame or message the receive task holds
    mutex,               \* who holds the Mutex of the shared collector: free, rx, consumer
    shared,              \* the collector the consumer drains (shared, or its own in the framebuffer)
    chan,                \* the channel between the receive task and the consumer
    produced,            \* every message the firmware receive task decoded, in order (collection cycle: the arrivals since the last drain)
    c_pc,                \* where the consumer loop is
    c_iter,              \* how many frames or messages the running drain has taken
    c_wait,              \* how long the consumer has been in its current wait
    last_update,         \* the consumer last_time_updated_display / last_update_screen
    since_drain,         \* the time since the consumer last began a drain
    n_read,              \* how many frames were read off the bus
    ingested_log,        \* every message the firmware consumer ingested, in order
    at_lock,             \* the frames stored (firmware: the messages queued) when the running drain began (collection cycle: the arrivals the last drain covered)
    decoded_log,         \* the frames the running drain has decoded, with what they decoded to
    cleared,             \* the frames the last clear of a drain removed
    failed_at,           \* when a bus read failed, -1 while none has
    drains               \* how many drains the consumer began

collector_vars == <<latest_can_frames, dropped_frames, op, pre, last_call, n_calls, distinct_calls,
                    superseding_inserts, capacity_evictions, ops>>
display_vars == <<dv, now, dv_log, dv_op>>
decoder_vars == <<frame, result>>
ingest_vars == <<display_data, ingest_msg, ingest_pre, ingests, rendered>>
frame_vars == <<encoded, built>>
rx_task_vars == <<rx_pc, rx_item, produced, n_read, failed_at>>
consumer_vars == <<c_pc, c_iter, c_wait, last_update, since_drain, ingested_log, at_lock,
                   decoded_log, cleared, drains>>
pipeline_vars == <<program, clock, mutex, shared, chan, rx_task_vars, consumer_vars>>
later_vars == <<pipeline_vars, frame_vars, ingest_vars>>
ingest_idle_vars == <<pipeline_vars, dv, dv_log, dv_op, collector_vars, decoder_vars, frame_vars>>
frame_idle_vars == <<pipeline_vars, collector_vars, display_vars, decoder_vars, ingest_vars>>
pipeline_idle_vars == <<collector_vars, display_vars, decoder_vars, ingest_vars, frame_vars>>
vars == <<collector_vars, display_vars, decoder_vars, later_vars>>

(***************************************************************************)
(* Option<T>                                                               *)
(***************************************************************************)
None == [tag |-> "None"]
Some(v) == [tag |-> "Some", val |-> v]
\* The outcome of a panicking expression (an out-of-range index, unwrap on None).
Panic == [tag |-> "Panic"]

(***************************************************************************)
(* embedded_can::Id and CanFrame                                           *)
(***************************************************************************)
\* Id::Standard(StandardId) and Id::Extended(ExtendedId): equality compares the tag too.
Standard(raw) == [ext |-> FALSE, raw |-> raw]
Extended(raw) == [ext |-> TRUE, raw |-> raw]

\* CanFrame::MAX_LEN
MAX_LEN == 8

\* CanFrame { id, data }
CanFrame(id, data) == [id |-> id, data |-> data]

(***************************************************************************)
(* CanCollector                                                            *)
(***************************************************************************)
\* Capacity of heapless::Vec<CanFrame, 100>
Capacity == 100

\* usize::MAX of the build. It is at least 2^32 - 1; the largest integer of the
\* model checker stands for it, and no run of the model comes near it.
UsizeMax == 2147483647

\* usize::saturating_add(1)
saturating_add_1(n) == IF n >= UsizeMax THEN UsizeMax ELSE n + 1

\* CanCollector::new
new == [latest_can_frames |-> <<>>, dropped_frames |-> 0]

\* An iterator that starts from the newest end of the Vec.
iter_newest_first(c) ==
    [i \in 1..Len(c.latest_can_frames) |->
        c.latest_can_frames[Len(c.latest_can_frames) + 1 - i]]

\* CanCollector::iter: the stored frames in Vec order
iter(c) == c.latest_can_frames

\* CanCollector::get_dropped_frames
get_dropped_frames(c) == c.dropped_frames

\* CanCollector::is_can_id_in_set
is_can_id_in_set(c, can_id) ==
    \E i \in 1..Len(c.latest_can_frames) : c.latest_can_frames[i].id = can_id

\* Mutant of retain_other: the stored frame with the identifier is not removed.
retain_everything(frames, id) == frames

\* heapless::Vec::retain(|f| f.id != id): keeps the other frames in order
retain_other(frames, id) == SelectSeq(frames, LAMBDA f : f.id /= id)

\* heapless::Vec::push: Err (the vector unchanged) when the vector is full
push(frames, f) == IF Len(frames) >= Capacity THEN frames ELSE Append(frames, f)

\* Mutant of remove_0: nothing is removed, the vector stays full.
remove_none(frames) == frames

\* Mutant of remove_0: the newest frame is removed instead of the oldest.
remove_newest(frames) == SubSeq(frames, 1, Len(frames) - 1)

\* heapless::Vec::remove(0)
remove_0(frames) == Tail(frames)

\* Mutant of clear: the frames are dropped and the counter is kept.
clear_keeps_counter(c) == [latest_can_frames |-> <<>>, dropped_frames |-> c.dropped_frames]

\* CanCollector::clear
clear(c) == [latest_can_frames |-> <<>>, dropped_frames |-> 0]

\* Mutant of insert: a frame whose identifier is stored takes the place of
\* the stored frame, in its position.
insert_in_place(c, f) ==
    IF is_can_id_in_set(c, f.id)
    THEN [latest_can_frames |->
             [i \in 1..Len(c.latest_can_frames) |->
                 IF c.latest_can_frames[i].id = f.id THEN f ELSE c.latest_can_frames[i]],
          dropped_frames |-> saturating_add_1(c.dropped_frames)]
    ELSE IF Len(c.latest_can_frames) = Capacity
         THEN [latest_can_frames |-> push(remove_0(c.latest_can_frames), f),
               dropped_frames |-> saturating_add_1(c.dropped_frames)]
         ELSE [latest_can_frames |-> push(c.latest_can_frames, f),
               dropped_frames |-> c.dropped_frames]

\* Mutant of insert: a frame whose identifier is stored is counted and thrown
\* away, the stored frame stays.
insert_keeps_stored(c, f) ==
    IF is_can_id_in_set(c, f.id)
    THEN [latest_can_frames |-> c.latest_can_frames,
          dropped_frames |-> saturating_add_1(c.dropped_frames)]
    ELSE IF Len(c.latest_can_frames) = Capacity
         THEN [latest_can_frames |-> push(remove_0(c.latest_can_frames), f),
               dropped_frames |-> saturating_add_1(c.dropped_frames)]
         ELSE [latest_can_frames |-> push(c.latest_can_frames, f),
               dropped_frames |-> c.dropped_frames]

\* Mutant of insert: a full collector is not checked for, the push fails.
insert_without_eviction(c, f) ==
    IF is_can_id_in_set(c, f.id)
    THEN [latest_can_frames |-> push(retain_other(c.latest_can_frames, f.id), f),
          dropped_frames |-> saturating_add_1(c.dropped_frames)]
    ELSE [latest_can_frames |-> push(c.latest_can_frames, f),
          dropped_frames |-> c.dropped_frames]

\* Mutant of insert: a superseded frame is not counted as dropped.
insert_uncounted_replace(c, f) ==
    IF is_can_id_in_set(c, f.id)
    THEN [latest_can_frames |-> push(retain_other(c.latest_can_frames, f.id), f),
          dropped_frames |-> c.dropped_frames]
    ELSE IF Len(c.latest_can_frames) = Capacity
         THEN [latest_can_frames |-> push(remove_0(c.latest_can_frames), f),
               dropped_frames |-> saturating_add_1(c.dropped_frames)]
         ELSE [latest_can_frames |-> push(c.latest_can_frames, f),
               dropped_frames |-> c.dropped_frames]

\* A collector that keys on the identifier and the payload length: a frame
\* supersedes the stored frame of its identifier and its length only.
insert_keyed_by_length(c, f) ==
    LET same(g) == g.id = f.id /\ Len(g.data) = Len(f.data)
    IN  IF \E i \in 1..Len(c.latest_can_frames) : same(c.latest_can_frames[i])
        THEN [latest_can_frames |->
                 push(SelectSeq(c.latest_can_frames, LAMBDA g : ~same(g)), f),
              dropped_frames |-> saturating_add_1(c.dropped_frames)]
        ELSE IF Len(c.latest_can_frames) = Capacity
             THEN [latest_can_frames |-> push(remove_0(c.latest_can_frames), f),
                   dropped_frames |-> saturating_add_1(c.dropped_frames)]
             ELSE [latest_can_frames |-> push(c.latest_can_frames, f),
                   dropped_frames |-> c.dropped_frames]

\* CanCollector::insert
insert(c, f) ==
    IF is_can_id_in_set(c, f.id)
    THEN [latest_can_frames |-> push(retain_other(c.latest_can_frames, f.id), f),
          dropped_frames |-> saturating_add_1(c.dropped_frames)]
    ELSE IF Len(c.latest_can_frames) = Capacity
         THEN [latest_can_frames |-> push(remove_0(c.latest_can_frames), f),
               dropped_frames |-> saturating_add_1(c.dropped_frames)]
         ELSE [latest_can_frames |-> push(c.latest_can_frames, f),
               dropped_frames |-> c.dropped_frames]

(***************************************************************************)
(* DisplayValue<T>                                                         *)
(***************************************************************************)
\* DISPLAY_VALUE_TIMEOUT = Duration::from_secs(5); the clock counts seconds.
DISPLAY_VALUE_TIMEOUT == 5

\* Instant::elapsed at clock reading t
elapsed(instant, t) == t - instant

\* DisplayValue::default, constructed at clock reading t
default(t) == [value |-> None, last_updated |-> t]

\* An update that stamps the value one second before the clock reading.
update_backdated(cell, value, t) == [value |-> Some(value), last_updated |-> t - 1]

\* Mutant of update: the timestamp of a cell that holds a value is kept.
update_keeps_timestamp(cell, value, t) ==
    [value |-> Some(value),
     last_updated |-> IF cell.value = None THEN t ELSE cell.last_updated]

\* DisplayValue::update, called at clock reading t
update(cell, value, t) == [value |-> Some(value), last_updated |-> t]

\* Mutant of is_valid: a value is still valid when exactly the timeout has elapsed.
is_valid_at_timeout(cell, t) ==
    cell.value /= None /\ elapsed(cell.last_updated, t) <= DISPLAY_VALUE_TIMEOUT

\* DisplayValue::is_valid, called at clock reading t
is_valid(cell, t) ==
    cell.value /= None /\ elapsed(cell.last_updated, t) < DISPLAY_VALUE_TIMEOUT

\* A get that hands out the stored value whatever its age.
get_ignoring_age(cell, t) == cell.value

\* DisplayValue::get, called at clock reading t
get(cell, t) == IF is_valid(cell, t) THEN cell.value ELSE None

(***************************************************************************)
(* The collector's environment: a caller that inserts frames and clears.   *)
(***************************************************************************)
\* Number of collector operations in one run.
MaxOps == 4

\* The frames a run starts from: PrefillFrame(1) .. PrefillFrame(n) were inserted,
\* in this order, into a new collector.
PrefillFrame(i) == CanFrame(Extended(i), <<0>>)

\* The collector after these n inserts: no identifier repeats and n <= Capacity,
\* so every one of them took the branch of insert that only pushes.
Prefill(n) == [latest_can_frames |-> [i \in 1..n |-> PrefillFrame(i)], dropped_frames |-> 0]


\* How many distinct frames were inserted before the run starts.
PrefillSizes == {0, Capacity - 1, Capacity}

\* The identifiers and payloads the caller inserts: a stored old identifier, the
\* same raw value as a standard identifier, and identifiers never stored before.
IdPool == {Extended(1), Extended(2), Standard(1), Extended(Capacity + 1)}
DataPool == {<<1, 2, 3>>, <<3, 2, 1>>}

AllIds == {Extended(i) : i \in 1..Capacity} \cup IdPool

\* The record of an insert call: the frame passed and the call's position since the last clear.
Call(f, at) == Some([frame |-> f, at |-> at])

PrefillCalls(n) ==
    [id \in AllIds |->
        IF id.ext /\ id.raw \in 1..n THEN Call(PrefillFrame(id.raw), id.raw) ELSE None]

InitCollector ==
    /\ \E n \in PrefillSizes :
          /\ latest_can_frames = Prefill(n).latest_can_frames
          /\ dropped_frames = Prefill(n).dropped_frames
          /\ last_call = PrefillCalls(n)
          /\ n_calls = n
          /\ pre = Prefill(n)
    /\ distinct_calls = TRUE
    /\ op = [kind |-> "new"]
    /\ superseding_inserts = 0
    /\ capacity_evictions = 0
    /\ ops = 0
    /\ dv = default(0) /\ now = 0 /\ dv_log = None /\ dv_op = [kind |-> "default"]
    /\ frame = None /\ result = None
    /\ display_data = None /\ ingest_msg = None /\ ingest_pre = None /\ ingests = 0 /\ rendered = None
    /\ encoded = None /\ built = None
    /\ program = None /\ clock = 0 /\ rx_pc = None /\ rx_item = None /\ mutex = None
    /\ shared = None /\ chan = <<>> /\ produced = <<>> /\ c_pc = None /\ c_iter = 0
    /\ c_wait = 0 /\ last_update = 0 /\ since_drain = 0 /\ n_read = 0
    /\ ingested_log = <<>> /\ at_lock = <<>> /\ decoded_log = <<>> /\ cleared = <<>>
    /\ failed_at = -1 /\ drains = 0

collector == [latest_can_frames |-> latest_can_frames, dropped_frames |-> dropped_frames]

Insert(f) ==
    /\ ops < MaxOps
    /\ LET c == insert(collector, f) IN
          /\ latest_can_frames' = c.latest_can_frames
          /\ dropped_frames' = c.dropped_frames
    /\ op' = [kind |-> "insert", frame |-> f]
    /\ pre' = collector
    /\ last_call' = [last_call EXCEPT ![f.id] = Call(f, n_calls + 1)]
    /\ n_calls' = n_calls + 1
    /\ distinct_calls' = (distinct_calls /\ last_call[f.id] = None)
    /\ superseding_inserts' =
          superseding_inserts
          + (IF \E i \in 1..Len(latest_can_frames) : latest_can_frames[i].id = f.id THEN 1 ELSE 0)
    /\ capacity_evictions' =
          capacity_evictions
          + (IF /\ \A i \in 1..Len(latest_can_frames) : latest_can_frames[i].id /= f.id
                /\ Len(latest_can_frames) = Capacity
             THEN 1 ELSE 0)
    /\ ops' = ops + 1
    /\ UNCHANGED <<display_vars, decoder_vars, later_vars>>

Clear ==
    /\ ops < MaxOps
    /\ LET c == clear(collector) IN
          /\ latest_can_frames' = c.latest_can_frames
          /\ dropped_frames' = c.dropped_frames
    /\ op' = [kind |-> "clear"]
    /\ pre' = collector
    /\ last_call' = [id \in AllIds |-> None]
    /\ n_calls' = 0
    /\ distinct_calls' = TRUE
    /\ superseding_inserts' = 0
    /\ capacity_evictions' = 0
    /\ ops' = ops + 1
    /\ UNCHANGED <<display_vars, decoder_vars, later_vars>>

\* The caller runs iter() to its end: iter takes &self, the collector is
\* left as it is. What the iteration yielded is recorded, with what the
\* iteration right before it yielded, if the call before was an iteration too.
Iterate ==
    /\ ops < MaxOps
    /\ op' = [kind |-> "iter", seq |-> iter(collector), again |-> op.kind = "iter",
              first |-> IF op.kind = "iter" THEN op.seq ELSE <<>>]
    /\ pre' = collector
    /\ ops' = ops + 1
    /\ UNCHANGED <<latest_can_frames, dropped_frames, last_call, n_calls, distinct_calls,
                   superseding_inserts, capacity_evictions>>
    /\ UNCHANGED <<display_vars, decoder_vars, later_vars>>

InsertAny == \E id \in IdPool, data \in DataPool : Insert(CanFrame(id, data))

NextCollector == InsertAny \/ Clear \/ Iterate

SpecCollector == InitCollector /\ [][NextCollector]_vars

(***************************************************************************)
(* The cell's environment: a writer that updates it while the clock runs.  *)
(***************************************************************************)
\* The clock readings of one run.
MaxTime == 12

\* The values written to the cell.
ValuePool == {10, 20}

InitDisplayValue ==
    /\ now = 0
    /\ dv = default(0)
    /\ dv_log = None
    /\ dv_op = [kind |-> "default"]
    /\ latest_can_frames = <<>> /\ dropped_frames = 0 /\ op = [kind |-> "new"]
    /\ pre = new /\ last_call = [id \in AllIds |-> None] /\ n_calls = 0
    /\ distinct_calls = TRUE /\ superseding_inserts = 0 /\ capacity_evictions = 0
    /\ ops = 0
    /\ frame = None /\ result = None
    /\ display_data = None /\ ingest_msg = None /\ ingest_pre = None /\ ingests = 0 /\ rendered = None
    /\ encoded = None /\ built = None
    /\ program = None /\ clock = 0 /\ rx_pc = None /\ rx_item = None /\ mutex = None
    /\ shared = None /\ chan = <<>> /\ produced = <<>> /\ c_pc = None /\ c_iter = 0
    /\ c_wait = 0 /\ last_update = 0 /\ since_drain = 0 /\ n_read = 0
    /\ ingested_log = <<>> /\ at_lock = <<>> /\ decoded_log = <<>> /\ cleared = <<>>
    /\ failed_at = -1 /\ drains = 0

Update(v) ==
    /\ dv' = update(dv, v, now)
    /\ dv_log' = Some([v |-> v, at |-> now])
    /\ dv_op' = [kind |-> "update", v |-> v, before |-> dv]
    /\ UNCHANGED <<now, collector_vars, decoder_vars, later_vars>>

UpdateAny == \E v \in ValuePool : Update(v)

Tick ==
    /\ now < MaxTime
    /\ now' = now + 1
    /\ dv_op' = [kind |-> "tick"]
    /\ UNCHANGED <<dv, dv_log, collector_vars, decoder_vars, later_vars>>

NextDisplayValue == UpdateAny \/ Tick

SpecDisplayValue == InitDisplayValue /\ [][NextDisplayValue]_vars

(***************************************************************************)
(* Properties of the collector                                             *)
(***************************************************************************)
Ids(frames) == {frames[i].id : i \in 1..Len(frames)}

Frames(frames) == {frames[i] : i \in 1..Len(frames)}

IsInsert == op.kind = "insert"
IsReplacingInsert == IsInsert /\ op.frame.id \in Ids(pre.latest_can_frames)
IsEvictingInsert ==
    /\ IsInsert
    /\ op.frame.id \notin Ids(pre.latest_can_frames)
    /\ Len(pre.latest_can_frames) = Capacity

\* C1: after any sequence of insert and clear calls the collector holds at most
\* one stored frame per distinct CAN identifier.
C1_OneFramePerIdentifier ==
    Cardinality(Ids(iter(collector))) = Len(iter(collector))

\* C1 witness: an identifier that was stored has been inserted again, next to other frames.
C1_Witness == IsReplacingInsert /\ Len(iter(collector)) >= 2

\* C2: every stored frame is the frame passed to the last insert with its
\* identifier since the last clear, and an insert of an identifier that is
\* already present leaves iter().count() unchanged.
C2_LastInsertWins ==
    /\ \A i \in 1..Len(iter(collector)) :
          last_call[iter(collector)[i].id] /= None
          /\ iter(collector)[i] = last_call[iter(collector)[i].id].val.frame
    /\ IsReplacingInsert => Len(iter(collector)) = Len(iter(pre))

\* C2 witness: a stored frame was replaced by a frame with the same identifier and another payload.
C2_Witness ==
    /\ IsReplacingInsert
    /\ \E g \in Frames(pre.latest_can_frames) : g.id = op.frame.id /\ g.data /= op.frame.data
    /\ op.frame \in Frames(iter(collector))

\* C3: the number of stored frames never exceeds the capacity, and after
\* capacity + 1 inserts of distinct identifiers into an empty collector it holds
\* exactly capacity frames and dropped_frames >= 1.
C3_BoundedByCapacity ==
    /\ Len(iter(collector)) <= Capacity
    /\ (distinct_calls /\ n_calls = Capacity + 1)
          => (Len(iter(collector)) = Capacity /\ get_dropped_frames(collector) >= 1)

\* C3 witness: capacity + 1 distinct identifiers were inserted since the collector was empty.
C3_Witness == distinct_calls /\ n_calls = Capacity + 1

\* C4: an insert of a new identifier into a full collector evicts exactly one
\* stored entry, the one that was inserted first among the stored entries, and
\* then stores the new frame.
C4_EvictsOldestInserted ==
    IsEvictingInsert =>
        \E victim \in Frames(pre.latest_can_frames) :
            /\ \A g \in Frames(pre.latest_can_frames) \ {victim} :
                  last_call[victim.id].val.at < last_call[g.id].val.at
            /\ Frames(iter(collector)) = (Frames(pre.latest_can_frames) \ {victim}) \cup {op.frame}
            /\ Len(iter(collector)) = Capacity
            /\ iter(collector)[Capacity] = op.frame

\* C4 witness: a full collector evicted for a new identifier, after a replacement
\* had moved the identifier that entered first away from the oldest position.
C4_Witness ==
    /\ IsEvictingInsert
    /\ superseding_inserts >= 1
    /\ pre.latest_can_frames[1].id /= PrefillFrame(1).id
    /\ PrefillFrame(1).id \in Ids(pre.latest_can_frames)

\* C5: between two clears dropped_frames never decreases; an insert raises it by
\* exactly 1 when it supersedes a stored frame with the same identifier or evicts
\* a frame for capacity and by 0 otherwise, so it equals the number of
\* superseding inserts plus capacity evictions since the last clear.
C5_DroppedFramesCounts ==
    /\ get_dropped_frames(collector) = superseding_inserts + capacity_evictions
    /\ IsInsert =>
          /\ get_dropped_frames(collector) >= get_dropped_frames(pre)
          /\ get_dropped_frames(collector) - get_dropped_frames(pre)
                = (IF IsReplacingInsert \/ IsEvictingInsert THEN 1 ELSE 0)

\* C5 witness: since the last clear a frame was superseded and then another evicted.
C5_Witness ==
    /\ superseding_inserts >= 1
    /\ capacity_evictions >= 1
    /\ IsEvictingInsert

\* C6: clear leaves the collector with no stored frame and dropped_frames = 0.
C6_ClearEmpties ==
    op.kind = "clear" => (Len(iter(collector)) = 0 /\ get_dropped_frames(collector) = 0)

\* C6 witness: clear was called on a collector that held frames and had dropped some.
C6_Witness ==
    op.kind = "clear" /\ Len(iter(pre)) > 0 /\ get_dropped_frames(pre) > 0

\* The position of the last insert call with the identifier of a stored frame
LastInsertOf(f) == last_call[f.id].val.at

\* C21: an iteration leaves the collector as it was and yields exactly the
\* stored frames, each before every frame whose identifier was inserted more
\* recently; an iteration that follows an iteration directly yields the same
\* sequence.
C21_IterStableOldestFirst ==
    op.kind = "iter" =>
        /\ collector = pre
        /\ Len(op.seq) = Len(pre.latest_can_frames)
        /\ Frames(op.seq) = Frames(pre.latest_can_frames)
        /\ \A i, j \in 1..Len(op.seq) : i < j => LastInsertOf(op.seq[i]) < LastInsertOf(op.seq[j])
        /\ op.again => op.seq = op.first

\* C21 witness: two iterations in a row over a collector in which a
\* replacement has moved an identifier behind identifiers that entered later.
C21_Witness ==
    /\ op.kind = "iter"
    /\ op.again
    /\ Len(op.seq) >= 2
    /\ superseding_inserts >= 1
    /\ \E i \in 1..Len(op.seq) - 1 : op.seq[i].id = Extended(2) /\ op.seq[i].id.raw > op.seq[i + 1].id.raw

\* C25: since the last clear the number of insert calls is the number of
\* stored frames plus dropped_frames, and the frame an insert was called with
\* is stored when the call returns, at the newest position.
C25_NoFrameUncounted ==
    /\ n_calls = Len(iter(collector)) + get_dropped_frames(collector)
    /\ IsInsert =>
          /\ Len(iter(collector)) >= 1
          /\ iter(collector)[Len(iter(collector))] = op.frame

\* C25 witness: a full collector took a new identifier, after an insert that
\* replaced a stored frame: two calls more than frames are stored.
C25_Witness ==
    /\ IsEvictingInsert
    /\ Len(iter(collector)) = Capacity
    /\ n_calls = Capacity + 2
    /\ get_dropped_frames(collector) = 2

\* C26: an insert of a stored identifier leaves the other frames in their
\* order and puts the new frame behind them; the frame a full collector evicts
\* for a new identifier is the one whose identifier has the oldest last
\* insert, whichever identifier entered the collector first.
C26_EvictsLeastRecentlyUpdated ==
    /\ IsReplacingInsert =>
          iter(collector)
             = SelectSeq(pre.latest_can_frames, LAMBDA g : g.id /= op.frame.id) \o <<op.frame>>
    /\ IsEvictingInsert =>
          /\ pre.latest_can_frames[1].id \notin Ids(iter(collector))
          /\ \A g \in Frames(iter(collector)) :
                last_call[pre.latest_can_frames[1].id].val.at < LastInsertOf(g)

\* C26 witness: the identifier that entered first was inserted again, and
\* the eviction that followed took the identifier that entered second.
C26_Witness ==
    /\ IsEvictingInsert
    /\ pre.latest_can_frames[1].id = PrefillFrame(2).id
    /\ PrefillFrame(1).id \in Ids(iter(collector))
    /\ PrefillFrame(2).id \notin Ids(iter(collector))

(***************************************************************************)
(* Properties of DisplayValue                                              *)
(***************************************************************************)
\* A value has been stored and less than the timeout has elapsed since the last update.
Fresh == dv_log /= None /\ now - dv_log.val.at < DISPLAY_VALUE_TIMEOUT

\* C7: at every point in time is_valid() is true exactly when a value has been
\* stored and strictly less than the timeout has elapsed since the last update;
\* a never-updated cell and an expired cell report is_valid() false and get() None.
C7_ValidIffFresh ==
    /\ is_valid(dv, now) <=> Fresh
    /\ ~Fresh => (~is_valid(dv, now) /\ get(dv, now) = None)

\* C7 witness: a stored value at the moment exactly the timeout has elapsed.
C7_Witness ==
    dv_log /= None /\ dv.value /= None /\ now - dv_log.val.at = DISPLAY_VALUE_TIMEOUT

\* C8: get() returns the most recently updated value while less than the timeout
\* has elapsed since that update and None afterwards; update always replaces
\* both the value and the timestamp.
C8_GetReturnsLastUpdate ==
    /\ get(dv, now) = (IF Fresh THEN Some(dv_log.val.v) ELSE None)
    /\ dv_op.kind = "update" => dv = [value |-> Some(dv_op.v), last_updated |-> now]

\* C8 witness: an update overwrote an older, still valid, different value.
C8_Witness ==
    /\ dv_op.kind = "update"
    /\ is_valid(dv_op.before, now)
    /\ dv_op.before.last_updated < now
    /\ dv_op.before.value /= Some(dv_op.v)
    /\ get(dv, now) = Some(dv_op.v)

(***************************************************************************)
(* parse_eoi_can_data: byte access and integer conversions                 *)
(***************************************************************************)
\* The `?` operator on an Option followed by a call: None (and a panic) end the
\* evaluation, Some(v) hands v on.
AndThen(opt, F(_)) == IF opt.tag = "Some" THEN F(opt.val) ELSE opt

\* A struct expression whose fields are each evaluated with `?`, in order: the
\* first field that is not Some is the value of the whole expression.
Struct(fields, value) ==
    IF \A i \in 1..Len(fields) : fields[i].tag = "Some"
    THEN Some(value)
    ELSE fields[CHOOSE i \in 1..Len(fields) :
                    /\ fields[i].tag /= "Some"
                    /\ \A j \in 1..(i - 1) : fields[j].tag = "Some"]

\* Mutant of get_range: slice indexing data[lo..hi], which panics past the end.
index_range(data, lo, hi) ==
    IF hi <= Len(data) THEN Some(SubSeq(data, lo + 1, hi)) ELSE Panic

\* Mutant of get_range: a short payload is read as far as it goes and padded with zeros.
get_range_padded(data, lo, hi) ==
    Some([i \in 1..(hi - lo) |-> IF lo + i <= Len(data) THEN data[lo + i] ELSE 0])

\* <[u8]>::get(lo..hi)
get_range(data, lo, hi) ==
    IF hi <= Len(data) THEN Some(SubSeq(data, lo + 1, hi)) ELSE None

\* <[u8]>::get(i); first() is get(0)
get_byte(data, i) == IF i < Len(data) THEN Some(data[i + 1]) ELSE None

\* <[u8; N]>::try_from(&[u8]).ok()
try_into_array(bytes, n) == IF Len(bytes) = n THEN Some(bytes) ELSE None

\* A u32 as its two 16-bit halves.
U32(hi16, lo16) == [hi16 |-> hi16, lo16 |-> lo16]

\* An f32 / f64 as its bit pattern, most significant byte first.
F32(bits) == [f32_bits |-> bits]
F64(bits) == [f64_bits |-> bits]

\* x as f32 / div
Scaled(x, div) == [num |-> x, div |-> div]

\* The two's complement reading of an unsigned value of the given width.
AsSigned(u, modulus) == IF 2 * u >= modulus THEN u - modulus ELSE u

u16_from_le_bytes(arr) == arr[1] + 256 * arr[2]
i16_from_le_bytes(arr) == AsSigned(arr[1] + 256 * arr[2], 65536)
i16_from_be_bytes(arr) == AsSigned(256 * arr[1] + arr[2], 65536)
\* A u32 read with the first byte as the most significant.
u32_from_first_byte_high(arr) == U32(256 * arr[1] + arr[2], 256 * arr[3] + arr[4])

u32_from_le_bytes(arr) == U32(arr[3] + 256 * arr[4], arr[1] + 256 * arr[2])
u32_from_be_bytes(arr) == U32(256 * arr[1] + arr[2], 256 * arr[3] + arr[4])
i32_from_be_bytes(arr) ==
    AsSigned(arr[1], 256) * 16777216 + arr[2] * 65536 + arr[3] * 256 + arr[4]
f32_from_le_bytes(arr) == F32(<<arr[4], arr[3], arr[2], arr[1]>>)
f64_from_le_bytes(arr) ==
    F64(<<arr[8], arr[7], arr[6], arr[5], arr[4], arr[3], arr[2], arr[1]>>)

bytes_le_to_u16(bytes) == AndThen(try_into_array(bytes, 2), LAMBDA a : Some(u16_from_le_bytes(a)))
bytes_be_to_i16(bytes) == AndThen(try_into_array(bytes, 2), LAMBDA a : Some(i16_from_be_bytes(a)))
bytes_le_to_u32(bytes) == AndThen(try_into_array(bytes, 4), LAMBDA a : Some(u32_from_le_bytes(a)))
bytes_be_to_u32(bytes) == AndThen(try_into_array(bytes, 4), LAMBDA a : Some(u32_from_be_bytes(a)))
bytes_le_to_f32(bytes) == AndThen(try_into_array(bytes, 4), LAMBDA a : Some(f32_from_le_bytes(a)))
bytes_le_to_f64(bytes) == AndThen(try_into_array(bytes, 8), LAMBDA a : Some(f64_from_le_bytes(a)))
bytes_le_to_i16(bytes) == AndThen(try_into_array(bytes, 2), LAMBDA a : Some(i16_from_le_bytes(a)))
bytes_be_to_i32(bytes) == AndThen(try_into_array(bytes, 4), LAMBDA a : Some(i32_from_be_bytes(a)))

\* The field expressions of parse_eoi_can_data: conversion(data.get(lo..hi)?)?
le_u16(data, lo) == AndThen(get_range(data, lo, lo + 2), bytes_le_to_u16)
le_i16(data, lo) == AndThen(get_range(data, lo, lo + 2), bytes_le_to_i16)
be_i16(data, lo) == AndThen(get_range(data, lo, lo + 2), bytes_be_to_i16)
le_u32(data, lo) == AndThen(get_range(data, lo, lo + 4), bytes_le_to_u32)
be_u32(data, lo) == AndThen(get_range(data, lo, lo + 4), bytes_be_to_u32)
be_i32(data, lo) == AndThen(get_range(data, lo, lo + 4), bytes_be_to_i32)
le_f32(data, lo) == AndThen(get_range(data, lo, lo + 4), bytes_le_to_f32)
le_f64(data, lo) == AndThen(get_range(data, lo, lo + 8), bytes_le_to_f64)

\* opt? as f32 / div
Div(opt, div) == AndThen(opt, LAMBDA x : Some(Scaled(x, div)))

\* *opt? as i8
as_i8(opt) == AndThen(opt, LAMBDA b : Some(AsSigned(b, 256)))

\* A flag that is also set by every bit below its own.
bit_or_lower(opt, k) == AndThen(opt, LAMBDA b : Some(b % (2 ^ (k + 1)) /= 0))

\* *opt? & (1 << k) != 0
bit(opt, k) == AndThen(opt, LAMBDA b : Some((b \div (2 ^ k)) % 2 = 1))

\* The four u16 cell voltages of IDs 0x103, 0x104, 0x105
FourCellVoltages(data) ==
    LET c0 == Div(le_u16(data, 0), 1000)
        c1 == Div(le_u16(data, 2), 1000)
        c2 == Div(le_u16(data, 4), 1000)
        c3 == Div(le_u16(data, 6), 1000)
    IN  Struct(<<c0, c1, c2, c3>>, [cell_voltage |-> <<c0.val, c1.val, c2.val, c3.val>>])

(***************************************************************************)
(* parse_eoi_can_data                                                      *)
(***************************************************************************)
MPPT_MAX_DEVICES == 8
MPPT_BASE_ADDRESS == \h700
MPPT_INFO_FIELDS == 16
MPPT_STOP_ADDRESS == MPPT_BASE_ADDRESS + (MPPT_MAX_DEVICES * MPPT_INFO_FIELDS) - 1

\* EoiCanData::EoiBattery(EoiBattery::<variant>(<fields>)) and its siblings
EoiBattery(variant, fields) == [data |-> "EoiBattery", variant |-> variant, fields |-> fields]
Gnss(variant, fields) == [data |-> "Gnss", variant |-> variant, fields |-> fields]
Vesc(variant, fields) == [data |-> "Vesc", variant |-> variant, fields |-> fields]
Throttle(variant, fields) == [data |-> "Throttle", variant |-> variant, fields |-> fields]
Mppt(mppt_id, variant, fields) ==
    [data |-> "Mppt", mppt_id |-> mppt_id, variant |-> variant, fields |-> fields]

\* let mppt_id = ((id >> 4) & 0x7) as u8
mppt_id_of(id) == (id \div 16) % 8

\* let info_field = id as u8 & 0xF
info_field_of(id) == (id % 256) % 16

\* A channel number that is the info field itself, the shift left out.
channel_unshifted(info_field) == info_field

\* let channel = info_field >> 1
channel_of(info_field) == info_field \div 2

\* The match arm MPPT_BASE_ADDRESS..MPPT_STOP_ADDRESS (the upper end is excluded)
parse_mppt(id, data) ==
    LET mppt_id == mppt_id_of(id)
        info_field == info_field_of(id)
        channel == channel_of(info_field)
    IN  CASE info_field \in {0, 2, 4, 6} ->
                LET v == le_f32(data, 0)
                    c == le_f32(data, 4)
                IN  Struct(<<v, c>>,
                        Mppt(mppt_id, "MpptChannelPower",
                             [mppt_channel |-> channel, voltage_in |-> v.val, current_in |-> c.val]))
          [] info_field \in {1, 3, 5, 7} ->
                LET d == le_u16(data, 0)
                    a == get_byte(data, 2)
                    s == get_byte(data, 3)
                    act == AndThen(get_byte(data, 4), LAMBDA b : Some(b /= 0))
                IN  Struct(<<d, a, s, act>>,
                        Mppt(mppt_id, "MpptChannelState",
                             [mppt_channel |-> channel, duty_cycle |-> d.val, algorithm |-> a.val,
                              algorithm_state |-> s.val, channel_active |-> act.val]))
          [] info_field = 8 ->
                LET v == le_f32(data, 0)
                    c == le_f32(data, 4)
                IN  Struct(<<v, c>>,
                        Mppt(mppt_id, "MpptPower", [voltage_out |-> v.val, current_out |-> c.val]))
          [] info_field = 9 ->
                LET v == le_f32(data, 0)
                    t == le_i16(data, 4)
                    s == get_byte(data, 6)
                    pwm == bit(get_byte(data, 7), 0)
                    sw == bit(get_byte(data, 7), 1)
                IN  Struct(<<v, t, s, pwm, sw>>,
                        Mppt(mppt_id, "MpptStatus",
                             [voltage_out_switch |-> v.val, temperature |-> t.val, state |-> s.val,
                              pwm_enabled |-> pwm.val, switch_on |-> sw.val]))
          [] OTHER -> None

\* A control type match that rejects the bytes it does not know.
throttle_control_type_strict(data) ==
    AndThen(get_byte(data, 0),
            LAMBDA b : CASE b = 0 -> Some("DutyCycle")
                         [] b = 1 -> Some("FilteredDutyCycle")
                         [] b = 2 -> Some("Current")
                         [] b = 3 -> Some("Rpm")
                         [] b = 4 -> Some("CurrentRelative")
                         [] OTHER -> None)

\* control_type: match *data.first()? { 0 => .., 4 => .., _ => Unknown }
throttle_control_type(data) ==
    AndThen(get_byte(data, 0),
            LAMBDA b : Some(CASE b = 0 -> "DutyCycle"
                              [] b = 1 -> "FilteredDutyCycle"
                              [] b = 2 -> "Current"
                              [] b = 3 -> "Rpm"
                              [] b = 4 -> "CurrentRelative"
                              [] OTHER -> "Unknown"))

\* The match arm 0x1337 | 0x0337
parse_throttle(data) ==
    CASE Len(data) = 8 ->
            LET value == AndThen(be_i16(data, 0),
                                 LAMBDA x : Some([num |-> x, div |-> 512, times |-> 100]))
                raw_angle == be_i16(data, 2)
                raw_deadmen == be_i16(data, 4)
                gain == get_byte(data, 6)
                error_any == AndThen(get_byte(data, 7), LAMBDA b : Some(b /= 0))
                error_twi == AndThen(get_byte(data, 7), LAMBDA b : Some(b % 8))
                b3 == bit(get_byte(data, 7), 3)
                b4 == bit(get_byte(data, 7), 4)
                b5 == bit(get_byte(data, 7), 5)
                b6 == bit(get_byte(data, 7), 6)
                b7 == bit(get_byte(data, 7), 7)
            IN  Struct(<<value, raw_angle, raw_deadmen, gain, error_any, error_twi,
                         b3, b4, b5, b6, b7>>,
                    Throttle("Status",
                        [value |-> value.val, raw_angle |-> raw_angle.val,
                         raw_deadmen |-> raw_deadmen.val, gain |-> gain.val,
                         error_any |-> error_any.val, error_twi |-> error_twi.val,
                         error_no_eeprom |-> b3.val, error_gain_clipping |-> b4.val,
                         error_gain_invalid |-> b5.val, error_deadman_missing |-> b6.val,
                         error_impedance_high |-> b7.val]))
      [] Len(data) = 6 ->
            LET control_type == throttle_control_type(data)
                lever_forward == be_i16(data, 2)
                lever_backward == be_i16(data, 4)
            IN  Struct(<<control_type, lever_forward, lever_backward>>,
                    Throttle("Config",
                        [control_type |-> control_type.val, lever_forward |-> lever_forward.val,
                         lever_backward |-> lever_backward.val]))
      [] OTHER -> None

\* parse_eoi_can_data
parse_eoi_can_data(can_frame) ==
    LET id == can_frame.id.raw
        data == can_frame.data
    IN  CASE id = \h100 ->
                LET p == le_f32(data, 0)
                    q == le_f32(data, 4)
                IN  Struct(<<p, q>>,
                        EoiBattery("PackAndPerriCurrent",
                                   [pack_current |-> p.val, perri_current |-> q.val]))
          [] id = \h101 ->
                LET c == le_f32(data, 0)
                    d == AndThen(le_f32(data, 4), LAMBDA x : Some([neg |-> x]))
                IN  Struct(<<c, d>>,
                        EoiBattery("ChargeAndDischargeCurrent",
                                   [charge_current |-> c.val, discharge_current |-> d.val]))
          [] id = \h102 ->
                LET soc == Div(le_u16(data, 0), 100)
                    flags == le_u32(data, 2)
                    bal == le_u16(data, 6)
                IN  Struct(<<soc, flags, bal>>,
                        EoiBattery("SocErrorFlagsAndBalancing",
                                   [state_of_charge |-> soc.val, error_flags |-> flags.val,
                                    balancing_status |-> bal.val]))
          [] id = \h103 ->
                AndThen(FourCellVoltages(data), LAMBDA v : Some(EoiBattery("CellVoltages1_4", v)))
          [] id = \h104 ->
                AndThen(FourCellVoltages(data), LAMBDA v : Some(EoiBattery("CellVoltages5_8", v)))
          [] id = \h105 ->
                AndThen(FourCellVoltages(data), LAMBDA v : Some(EoiBattery("CellVoltages9_12", v)))
          [] id = \h106 ->
                LET c0 == Div(le_u16(data, 0), 1000)
                    c1 == Div(le_u16(data, 2), 1000)
                    pack == Div(le_u16(data, 4), 1000)
                    stack == Div(le_u16(data, 6), 1000)
                IN  Struct(<<c0, c1, pack, stack>>,
                        EoiBattery("CellVoltages13_14PackAndStack",
                                   [cell_voltage |-> <<c0.val, c1.val>>,
                                    pack_voltage |-> pack.val, stack_voltage |-> stack.val]))
          [] id = \h107 ->
                LET t0 == as_i8(get_byte(data, 0))
                    t1 == as_i8(get_byte(data, 1))
                    t2 == as_i8(get_byte(data, 2))
                    t3 == as_i8(get_byte(data, 3))
                    ic == as_i8(get_byte(data, 4))
                    bs == get_byte(data, 5)
                    cs == get_byte(data, 6)
                    ds == get_byte(data, 7)
                IN  Struct(<<t0, t1, t2, t3, ic, bs, cs, ds>>,
                        EoiBattery("TemperaturesAndStates",
                                   [temperatures |-> <<t0.val, t1.val, t2.val, t3.val>>,
                                    ic_temperature |-> ic.val, battery_state |-> bs.val,
                                    charge_state |-> cs.val, discharge_state |-> ds.val]))
          [] id = \h108 ->
                LET up == le_u32(data, 0)
                IN  Struct(<<up>>, EoiBattery("BatteryUptime", [uptime_ms |-> up.val]))
          [] id = \h200 ->
                LET fix == get_byte(data, 0)
                    sats == get_byte(data, 1)
                    used == get_byte(data, 2)
                IN  Struct(<<fix, sats, used>>,
                        Gnss("GnssStatus",
                             [fix |-> fix.val, sats |-> sats.val, sats_used |-> used.val]))
          [] id = \h201 ->
                LET speed == le_f32(data, 0)
                    heading == le_f32(data, 4)
                IN  Struct(<<speed, heading>>,
                        Gnss("GnssSpeedAndHeading", <<speed.val, heading.val>>))
          [] id = \h202 ->
                LET lat == le_f64(data, 0)
                IN  Struct(<<lat>>, Gnss("GnssLatitude", lat.val))
          [] id = \h203 ->
                LET lon == le_f64(data, 0)
                IN  Struct(<<lon>>, Gnss("GnssLongitude", lon.val))
          [] id = \h204 ->
                LET year == le_u16(data, 0)
                    month == get_byte(data, 2)
                    day == get_byte(data, 3)
                    hours == get_byte(data, 4)
                    minutes == get_byte(data, 5)
                    seconds == get_byte(data, 6)
                IN  Struct(<<year, month, day, hours, minutes, seconds>>,
                        Gnss("GnssDateTime",
                             [year |-> year.val, month |-> month.val, day |-> day.val,
                              hours |-> hours.val, minutes |-> minutes.val,
                              seconds |-> seconds.val]))
          [] id >= MPPT_BASE_ADDRESS /\ id < MPPT_STOP_ADDRESS -> parse_mppt(id, data)
          [] id = \h0909 ->
                LET rpm == be_i32(data, 0)
                    cur == Div(be_i16(data, 4), 10)
                    duty == Div(be_i16(data, 6), 10)
                IN  Struct(<<rpm, cur, duty>>,
                        Vesc("StatusMessage1",
                             [rpm |-> rpm.val, total_current |-> cur.val, duty_cycle |-> duty.val]))
          [] id = \h0E09 ->
                LET used == Div(be_u32(data, 0), 10000)
                    gen == Div(be_u32(data, 4), 10000)
                IN  Struct(<<used, gen>>,
                        Vesc("StatusMessage2",
                             [amp_hours_used |-> used.val, amp_hours_generated |-> gen.val]))
          [] id = \h0F09 ->
                LET used == Div(be_u32(data, 0), 10000)
                    gen == Div(be_u32(data, 4), 10000)
                IN  Struct(<<used, gen>>,
                        Vesc("StatusMessage3",
                             [watt_hours_used |-> used.val, watt_hours_generated |-> gen.val]))
          [] id = \h1009 ->
                LET fet == Div(be_i16(data, 0), 10)
                    motor == Div(be_i16(data, 2), 10)
                    cur == Div(be_i16(data, 4), 10)
                    pid == Div(be_i16(data, 6), 50)
                IN  Struct(<<fet, motor, cur, pid>>,
                        Vesc("StatusMessage4",
                             [fet_temp |-> fet.val, motor_temp |-> motor.val,
                              total_input_current |-> cur.val, current_pid_position |-> pid.val]))
          [] id = \h1B09 ->
                LET volt == Div(be_i16(data, 4), 10)
                    tacho == be_i32(data, 0)
                IN  Struct(<<volt, tacho>>,
                        Vesc("StatusMessage5",
                             [input_voltage |-> volt.val, tachometer |-> tacho.val]))
          [] id = \h0009 ->
                LET x == Div(be_i32(data, 0), 1000)
                IN  Struct(<<x>>, Throttle("ToVescDutyCycle", x.val))
          [] id = \h0109 ->
                LET x == Div(be_i32(data, 0), 1000)
                IN  Struct(<<x>>, Throttle("ToVescCurrent", x.val))
          [] id = \h0309 ->
                LET x == Div(be_i32(data, 0), 1000)
                IN  Struct(<<x>>, Throttle("ToVescRpm", x.val))
          [] id \in {\h1337, \h0337} -> parse_throttle(data)
          [] OTHER -> None

(***************************************************************************)
(* The decoder's environment: one frame is handed to parse_eoi_can_data.   *)
(***************************************************************************)
Pending == [tag |-> "Pending"]

\* The raw identifiers tried: every identifier of the exact-match tables with its
\* neighbours, the eight MPPT devices with all sixteen info fields and the band's
\* neighbours, and identifiers far from every band.
BatteryGnssRaw == (\h0FF..\h109) \cup (\h1FF..\h205)
MpptRaw ==
    {\h6FF, \h780}
    \cup {MPPT_BASE_ADDRESS + MPPT_INFO_FIELDS * m + f :
              m \in 0..(MPPT_MAX_DEVICES - 1), f \in 0..(MPPT_INFO_FIELDS - 1)}
LowMotorRaw == {\h000, \h009, \h309, \h337, \h7FF}
ExtendedOnlyRaw == {\h0908, \h0909, \h0E09, \h0F09, \h1009, \h1B09, \h1337, \h1338, \h1FFFFFFF}
ExtendedLowRaw == {\h009, \h100, \h108, \h337, \h700, \h70A}

DecoderIds ==
    {Standard(r) : r \in BatteryGnssRaw \cup MpptRaw \cup LowMotorRaw}
    \cup {Extended(r) : r \in ExtendedOnlyRaw \cup ExtendedLowRaw}

\* The payload bytes tried: zero, and a byte with its sign bit and its lowest bit set.
BytePool == {0, 129}

Payloads(n) == [1..n -> BytePool]

\* Throttle configuration frames with every known control-type byte, the first
\* unknown one and the largest byte.
ControlTypeBytes == {1, 2, 3, 4, 5, 255}
ThrottleConfigFrames ==
    {CanFrame(id, <<b>> \o rest) :
        id \in {Extended(\h1337), Extended(\h0337), Standard(\h0337)},
        b \in ControlTypeBytes, rest \in Payloads(5)}

\* Frames whose four leading bytes all differ in weight: the bytes 6C B0 22 3B
\* of the uptime test, and every choice of four bytes around the sign bit, as
\* the 4-byte and the 8-byte payload of the battery uptime (0x108) and as the
\* 8-byte payload of the motor controller's status message 1 (0x0909).
EndianBytes == {0, 1, 127, 128, 255}
EndianWords == {<<\h6C, \hB0, \h22, \h3B>>} \cup [1..4 -> EndianBytes]
EndianFrames ==
    {CanFrame(Standard(\h108), w) : w \in EndianWords}
    \cup {CanFrame(id, w \o <<0, 0, 0, 0>>) :
             id \in {Standard(\h108), Extended(\h0909)}, w \in EndianWords}

\* Throttle status frames with every value of the error byte
ThrottleStatusFrames ==
    {CanFrame(id, <<0, 0, 0, 0, 0, 0, 0, e>>) :
        id \in {Extended(\h1337), Standard(\h0337)}, e \in 0..255}

DecoderFrames ==
    {CanFrame(id, data) : id \in DecoderIds, data \in UNION {Payloads(n) : n \in 0..MAX_LEN}}

InitDecoder ==
    /\ \/ frame \in DecoderFrames
       \/ frame \in ThrottleConfigFrames
       \/ frame \in EndianFrames
       \/ frame \in ThrottleStatusFrames
    /\ result = Pending
    /\ latest_can_frames = <<>> /\ dropped_frames = 0 /\ op = [kind |-> "new"]
    /\ pre = new /\ last_call = [id \in AllIds |-> None] /\ n_calls = 0
    /\ distinct_calls = TRUE /\ superseding_inserts = 0 /\ capacity_evictions = 0
    /\ ops = 0
    /\ dv = default(0) /\ now = 0 /\ dv_log = None /\ dv_op = [kind |-> "default"]
    /\ display_data = None /\ ingest_msg = None /\ ingest_pre = None /\ ingests = 0 /\ rendered = None
    /\ encoded = None /\ built = None
    /\ program = None /\ clock = 0 /\ rx_pc = None /\ rx_item = None /\ mutex = None
    /\ shared = None /\ chan = <<>> /\ produced = <<>> /\ c_pc = None /\ c_iter = 0
    /\ c_wait = 0 /\ last_update = 0 /\ since_drain = 0 /\ n_read = 0
    /\ ingested_log = <<>> /\ at_lock = <<>> /\ decoded_log = <<>> /\ cleared = <<>>
    /\ failed_at = -1 /\ drains = 0

Parse ==
    /\ result = Pending
    /\ result' = parse_eoi_can_data(frame)
    /\ UNCHANGED <<frame, collector_vars, display_vars, later_vars>>

NextDecoder == Parse

SpecDecoder == InitDecoder /\ [][NextDecoder]_vars

(***************************************************************************)
(* Properties of parse_eoi_can_data                                        *)
(***************************************************************************)
\* C9: parse_eoi_can_data is total: for every identifier and every payload of
\* length 0 to 8 it returns Some or None and never panics.
C9_ParseIsTotal ==
    result /= Pending => (result = None \/ result.tag = "Some")

\* C9 witness: the routine of ID 0x107 reads payload byte 7 and the payload has 7 bytes.
C9_Witness ==
    result /= Pending /\ frame.id.raw = \h107 /\ Len(frame.data) = 7

\* The identifiers of the exact-match tables, but for the two throttle identifiers.
TableIds ==
    (\h100..\h108) \cup (\h200..\h204)
    \cup {\h0909, \h0E09, \h0F09, \h1009, \h1B09, \h0009, \h0109, \h0309}

ThrottleIds == {\h1337, \h0337}

InMpptBand(raw) == raw \in \h700..\h77F

\* One more than the highest payload offset the routine of a table identifier reads.
TableReads(raw) ==
    CASE raw = \h108 -> 4
      [] raw = \h200 -> 3
      [] raw = \h204 -> 7
      [] raw = \h1B09 -> 6
      [] raw \in {\h0009, \h0109, \h0309} -> 4
      [] OTHER -> 8

\* The same for an info field of the MPPT band; the fields 10..15 have no routine,
\* and a full payload contains every offset a routine could read.
MpptReads(info_field) ==
    CASE info_field \in {0, 2, 4, 6, 8, 9} -> MAX_LEN
      [] info_field \in {1, 3, 5, 7} -> 5
      [] OTHER -> MAX_LEN

DecodesTable(f) ==
    \/ f.id.raw \in TableIds /\ Len(f.data) >= TableReads(f.id.raw)
    \/ f.id.raw \in ThrottleIds /\ Len(f.data) \in {6, 8}

\* The kind of message an identifier stands for.
KindOf(raw) ==
    CASE raw \in \h100..\h108 -> "EoiBattery"
      [] raw \in \h200..\h204 -> "Gnss"
      [] InMpptBand(raw) -> "Mppt"
      [] raw \in {\h0909, \h0E09, \h0F09, \h1009, \h1B09} -> "Vesc"
      [] OTHER -> "Throttle"

\* C10 as stated: a message is returned exactly when the identifier is in a
\* recognized table or band and the payload contains every byte offset the
\* identifier's routine reads (length 8 or 6 for 0x1337/0x0337); otherwise None.
C10_Original ==
    result /= Pending =>
        /\ result.tag = "Some" <=>
              \/ DecodesTable(frame)
              \/ InMpptBand(frame.id.raw) /\ Len(frame.data) >= MpptReads(frame.id.raw % 16)
        /\ result.tag /= "Some" => result = None

\* C10 amended: as stated, with the MPPT band recognized only for the info
\* fields 0..9; an identifier of the band with info field 10..15 gives None
\* whatever its payload.
C10_SomeIffDecodable ==
    result /= Pending =>
        /\ result.tag = "Some" <=>
              \/ DecodesTable(frame)
              \/ /\ InMpptBand(frame.id.raw)
                 /\ frame.id.raw % 16 <= 9
                 /\ Len(frame.data) >= MpptReads(frame.id.raw % 16)
        /\ result.tag = "Some" => result.val.data = KindOf(frame.id.raw)
        /\ result.tag /= "Some" => result = None

\* C10 witness: an identifier of the MPPT band with info field 10 and a full payload gave None.
C10_Witness ==
    /\ result = None
    /\ frame.id.raw = \h70A
    /\ Len(frame.data) = MAX_LEN

(***************************************************************************)
(* Properties of the MPPT arm                                              *)
(***************************************************************************)
\* The record an info field selects; the fields 10..15 select none.
MpptVariantOf(f) ==
    CASE f \in {0, 2, 4, 6} -> "MpptChannelPower"
      [] f \in {1, 3, 5, 7} -> "MpptChannelState"
      [] f = 8 -> "MpptPower"
      [] f = 9 -> "MpptStatus"
      [] OTHER -> "none"

\* What is expected of the result for device m and info field f of the band.
MpptExpected(m, f) ==
    IF f >= 10
    THEN result = None
    ELSE /\ result.tag = "Some"
         /\ result.val.data = "Mppt"
         /\ result.val.mppt_id = m
         /\ result.val.variant = MpptVariantOf(f)
         /\ f <= 7 => \E ch \in 0..3 :
                         /\ result.val.fields.mppt_channel = ch
                         /\ f \in {2 * ch, 2 * ch + 1}

\* C11: for every identifier 0x700 + 16 * m + f of the MPPT band (device m in
\* 0..7, info field f in 0..15) with a full payload, the decoder reports
\* mppt_id = m and channel = f >> 1, and selects the record by f: 0/2/4/6 give
\* channel power, 1/3/5/7 channel state, 8 output power, 9 status, 10..15 None.
C11_MpptDecomposition ==
    (result /= Pending /\ InMpptBand(frame.id.raw) /\ Len(frame.data) = MAX_LEN) =>
        \A m \in 0..7, f \in 0..15 :
            frame.id.raw = \h700 + 16 * m + f => MpptExpected(m, f)

\* C11 witness: the channel-state record of channel 3 of device 6 was decoded
\* from identifier 0x767.
C11_Witness ==
    /\ result.tag = "Some"
    /\ frame.id.raw = \h767
    /\ Len(frame.data) = MAX_LEN
    /\ result.val.mppt_id = 6
    /\ result.val.variant = "MpptChannelState"
    /\ result.val.fields.mppt_channel = 3

(***************************************************************************)
(* Properties of the throttle arm                                          *)
(***************************************************************************)
\* The control types with a name of their own, by their byte.
KnownControlTypes ==
    {<<0, "DutyCycle">>, <<1, "FilteredDutyCycle">>, <<2, "Current">>, <<3, "Rpm">>,
     <<4, "CurrentRelative">>}

\* C12: for the identifiers 0x1337 and 0x0337 the payload length alone chooses
\* the record: 8 bytes give a throttle status, 6 bytes a throttle configuration,
\* every other length None; in a configuration a control-type byte outside 0..4
\* gives ThrottleControlType::Unknown, and the decode does not fail on it.
C12_ThrottleByLength ==
    (result /= Pending /\ frame.id.raw \in ThrottleIds) =>
        CASE Len(frame.data) = 8 ->
                /\ result.tag = "Some"
                /\ result.val.data = "Throttle"
                /\ result.val.variant = "Status"
          [] Len(frame.data) = 6 ->
                /\ result.tag = "Some"
                /\ result.val.data = "Throttle"
                /\ result.val.variant = "Config"
                /\ \/ <<frame.data[1], result.val.fields.control_type>> \in KnownControlTypes
                   \/ /\ frame.data[1] \notin 0..4
                      /\ result.val.fields.control_type = "Unknown"
          [] OTHER -> result = None

\* C12 witness: a configuration with control-type byte 5 was decoded as Unknown.
C12_Witness ==
    /\ result.tag = "Some"
    /\ frame.id.raw = \h1337
    /\ Len(frame.data) = 6
    /\ frame.data[1] = 5
    /\ result.val.variant = "Config"
    /\ result.val.fields.control_type = "Unknown"

\* C23: the battery uptime of ID 0x108 is read with byte 0 as the least
\* significant: its low half is b0 + 2^8*b1 and its high half b2 + 2^8*b3, from
\* a payload of 4 bytes as from one of 8, and the bytes 6C B0 22 3B give
\* 992129132; the rpm of ID 0x0909 is read with byte 0 as the most
\* significant, as a two's-complement 32-bit value: its low 16 bits are
\* 2^8*b2 + b3 and the rest is the signed 16-bit value of 2^8*b0 + b1.
C23_EndiannessByBand ==
    (result /= Pending /\ Len(frame.data) >= 4) =>
        LET b0 == frame.data[1]
            b1 == frame.data[2]
            b2 == frame.data[3]
            b3 == frame.data[4]
        IN  /\ frame.id.raw = \h108 =>
                  /\ result.tag = "Some"
                  /\ result.val.variant = "BatteryUptime"
                  /\ result.val.fields.uptime_ms.lo16 = b0 + 256 * b1
                  /\ result.val.fields.uptime_ms.hi16 = b2 + 256 * b3
                  /\ <<b0, b1, b2, b3>> = <<\h6C, \hB0, \h22, \h3B>> =>
                        65536 * result.val.fields.uptime_ms.hi16
                           + result.val.fields.uptime_ms.lo16 = 992129132
            /\ (frame.id.raw = \h0909 /\ Len(frame.data) = 8) =>
                  /\ result.tag = "Some"
                  /\ result.val.variant = "StatusMessage1"
                  /\ result.val.fields.rpm % 65536 = 256 * b2 + b3
                  /\ result.val.fields.rpm \div 65536
                        = (IF b0 >= 128 THEN 256 * b0 + b1 - 65536 ELSE 256 * b0 + b1)

\* C23 witness: the 4-byte payload 6C B0 22 3B of ID 0x108 was decoded.
C23_Witness ==
    /\ result /= Pending
    /\ frame = CanFrame(Standard(\h108), <<\h6C, \hB0, \h22, \h3B>>)
    /\ result.tag = "Some"

\* Bit k of a byte
BitOf(byte, k) == (byte \div (2 ^ k)) % 2 = 1

\* C24: in a decoded throttle status record error_twi is the low three bits
\* of payload byte 7, the five flags are its bits 3 to 7, each whatever the
\* others are, and error_any is true exactly when the byte is not zero, which
\* is when a flag is set or error_twi is not zero.
C24_ThrottleErrorBits ==
    (result /= Pending /\ frame.id.raw \in {\h1337, \h0337} /\ Len(frame.data) = 8) =>
        LET e == frame.data[8]
            r == result.val.fields
        IN  /\ result.tag = "Some"
            /\ result.val.variant = "Status"
            /\ r.error_twi = e % 8
            /\ r.error_no_eeprom = BitOf(e, 3)
            /\ r.error_gain_clipping = BitOf(e, 4)
            /\ r.error_gain_invalid = BitOf(e, 5)
            /\ r.error_deadman_missing = BitOf(e, 6)
            /\ r.error_impedance_high = BitOf(e, 7)
            /\ r.error_any = (e /= 0)
            /\ r.error_any = (\/ r.error_twi /= 0
                               \/ r.error_no_eeprom \/ r.error_gain_clipping
                               \/ r.error_gain_invalid \/ r.error_deadman_missing
                               \/ r.error_impedance_high)

\* C24 witness: a status frame with the error byte 0x52: the sub-code 2 with
\* gain_clipping and deadman_missing set and the flags between and around
\* them clear.
C24_Witness ==
    /\ result /= Pending
    /\ frame.id.raw = \h1337
    /\ Len(frame.data) = 8
    /\ frame.data[8] = \h52
    /\ result.tag = "Some"
    /\ result.val.fields.error_twi = 2
    /\ result.val.fields.error_gain_clipping
    /\ result.val.fields.error_deadman_missing
    /\ ~result.val.fields.error_no_eeprom
    /\ ~result.val.fields.error_gain_invalid
    /\ ~result.val.fields.error_impedance_high

(***************************************************************************)
(* DisplayData and DisplayData::ingest_eoi_can_data (draw-display)         *)
(***************************************************************************)
\* An f32 of the display: a number, or NaN. Arithmetic with NaN gives NaN.
Num(n) == [nan |-> FALSE, v |-> n]
NAN == [nan |-> TRUE, v |-> 0]
Mul(a, b) == IF a.nan \/ b.nan THEN NAN ELSE Num(a.v * b.v)
Add(a, b) == IF a.nan \/ b.nan THEN NAN ELSE Num(a.v + b.v)

\* The fields of DisplayData: a scalar field is the pair <<name, 0>>, the
\* element i of an array field is <<name, i>>.
ScalarFields ==
    {"speed_kmh", "gnss_fix", "battery_state_of_charge", "battery_time_to_empty",
     "battery_current_pack", "battery_current_in", "battery_current_out_motor",
     "battery_current_out_peripherals", "battery_voltage", "battery_uptime_ms",
     "battery_error_flags", "battery_balancing_status", "battery_state",
     "battery_charge_state", "battery_discharge_state", "motor_battery_voltage",
     "motor_battery_current", "motor_current", "motor_duty_cycle", "motor_rpm",
     "motor_fet_temperature", "motor_temperature", "throttle_value", "throttle_errors",
     "charging_disabled", "time", "ip_address", "display_state_of_charge",
     "display_is_charging"}
CellCount == 14
TemperatureCount == 4
PanelCount == 11
Field(name) == <<name, 0>>
Cell(i) == <<"battery_cell_voltages", i>>
Temperature(i) == <<"battery_temperatures", i>>
Panel(i) == <<"mppt_panel_info", i>>
Fields ==
    {Field(name) : name \in ScalarFields}
    \cup {Cell(i) : i \in 0..(CellCount - 1)}
    \cup {Temperature(i) : i \in 0..(TemperatureCount - 1)}
    \cup {Panel(i) : i \in 0..(PanelCount - 1)}

\* #[derive(Default)] for DisplayData: every cell is DisplayValue::default()
DisplayData_default(t) == [k \in Fields |-> default(t)]

\* self.<field>.update(value) for every field of the function u, in one ingest
\* call; the clock does not advance inside the call. The arrays of the messages
\* have the sizes of their types, so every index is inside its array field.
update_all(self, u, t) ==
    [k \in Fields |-> IF k \in DOMAIN u THEN update(self[k], u[k], t) ELSE self[k]]

\* The values of a slice, from index offset of an array field on
Slice(name, offset, values) ==
    [k \in {<<name, offset + i - 1>> : i \in 1..Len(values)} |-> values[k[2] - offset + 1]]

\* An update_cell_voltages that writes every group from cell 0 on.
update_cell_voltages_from_0(self, offset, values, t) ==
    update_all(self, Slice("battery_cell_voltages", 0, values), t)

\* DisplayData::update_cell_voltages
update_cell_voltages(self, offset, values, t) ==
    update_all(self, Slice("battery_cell_voltages", offset, values), t)

\* The panel of an MPPT device and channel, as the match on MpptData::Id<m>(
\* MpptInfo::Channel<c>(MpptChannel::Power(power))) gives it.
PanelOf ==
    (<<2, 1>> :> 0) @@ (<<2, 2>> :> 1) @@ (<<2, 3>> :> 2)
    @@ (<<5, 0>> :> 3) @@ (<<5, 1>> :> 4) @@ (<<5, 2>> :> 5)
    @@ (<<4, 1>> :> 6) @@ (<<4, 2>> :> 7)
    @@ (<<6, 0>> :> 8) @@ (<<6, 1>> :> 9) @@ (<<6, 2>> :> 10)

\* MpptData::Id<m>(info), with info the channel's power, another record of a
\* channel, or a record of the device
MpptId(m, info) == [data |-> "Mppt", mppt_id |-> m, info |-> info]
ChannelPower(c, power) == [of |-> "Channel", channel |-> c, kind |-> "Power", power |-> power]
ChannelOther(c) == [of |-> "Channel", channel |-> c, kind |-> "Other"]
DeviceInfo(kind) == [of |-> "Device", kind |-> kind]

\* A panel chosen with the device and the channel exchanged.
panel_id_swapped(m) ==
    IF m.info.of = "Channel" /\ m.info.kind = "Power"
          /\ <<m.info.channel, m.mppt_id>> \in DOMAIN PanelOf
    THEN Some(PanelOf[<<m.info.channel, m.mppt_id>>])
    ELSE None

\* let (panel_id, channel_power) = match mppt_data { .. _ => return }
panel_id(m) ==
    IF m.info.of = "Channel" /\ m.info.kind = "Power"
          /\ <<m.mppt_id, m.info.channel>> \in DOMAIN PanelOf
    THEN Some(PanelOf[<<m.mppt_id, m.info.channel>>])
    ELSE None

\* The arm EoiCanData::EoiBattery
ingest_battery(self, m, t) ==
    LET d == m.fields
    IN  CASE m.variant = "ChargeAndDischargeCurrent" ->
                update_all(self, (Field("battery_current_in") :> d.charge_current)
                                 @@ (Field("battery_current_out_motor") :> d.discharge_current), t)
          [] m.variant = "SocErrorFlagsAndBalancing" ->
                update_all(self, (Field("battery_state_of_charge") :> d.state_of_charge)
                                 @@ (Field("battery_error_flags") :> d.error_flags)
                                 @@ (Field("battery_balancing_status") :> d.balancing_status), t)
          [] m.variant = "PackAndPerriCurrent" ->
                update_all(self, (Field("battery_current_out_peripherals") :> d.perri_current)
                                 @@ (Field("battery_current_pack") :> d.pack_current), t)
          [] m.variant = "CellVoltages1_4" -> update_cell_voltages(self, 0, d.cell_voltage, t)
          [] m.variant = "CellVoltages5_8" -> update_cell_voltages(self, 4, d.cell_voltage, t)
          [] m.variant = "CellVoltages9_12" -> update_cell_voltages(self, 8, d.cell_voltage, t)
          [] m.variant = "CellVoltages13_14PackAndStack" ->
                update_all(update_cell_voltages(self, 12, d.cell_voltage, t),
                           Field("battery_voltage") :> d.pack_voltage, t)
          [] m.variant = "TemperaturesAndStates" ->
                update_all(update_all(self, Slice("battery_temperatures", 0, d.temperatures), t),
                           (Field("battery_state") :> d.battery_state)
                           @@ (Field("battery_charge_state") :> d.charge_state)
                           @@ (Field("battery_discharge_state") :> d.discharge_state), t)
          [] m.variant = "BatteryUptime" ->
                update_all(self, Field("battery_uptime_ms") :> d.uptime_ms, t)

\* The arm EoiCanData::Throttle: only ThrottleData::Status is taken
ingest_throttle(self, m, t) ==
    IF m.variant = "Status"
    THEN update_all(self, (Field("throttle_value") :> m.fields.value)
                          @@ (Field("throttle_errors") :> m.fields.error), t)
    ELSE self

\* A Vesc arm that has lost its StatusMessage5 case.
ingest_vesc_without_5(self, m, t) ==
    LET d == m.fields
    IN  CASE m.variant = "StatusMessage1" ->
                update_all(self, (Field("motor_rpm") :> d.rpm)
                                 @@ (Field("motor_current") :> d.total_current)
                                 @@ (Field("motor_duty_cycle") :> d.duty_cycle), t)
          [] m.variant = "StatusMessage4" ->
                update_all(self, (Field("motor_battery_current") :> d.total_input_current)
                                 @@ (Field("motor_fet_temperature") :> d.fet_temp)
                                 @@ (Field("motor_temperature") :> d.motor_temp), t)
          [] OTHER -> self

\* The arm EoiCanData::Vesc: the status messages 1, 4 and 5 are taken
ingest_vesc(self, m, t) ==
    LET d == m.fields
    IN  CASE m.variant = "StatusMessage1" ->
                update_all(self, (Field("motor_rpm") :> d.rpm)
                                 @@ (Field("motor_current") :> d.total_current)
                                 @@ (Field("motor_duty_cycle") :> d.duty_cycle), t)
          [] m.variant = "StatusMessage4" ->
                update_all(self, (Field("motor_battery_current") :> d.total_input_current)
                                 @@ (Field("motor_fet_temperature") :> d.fet_temp)
                                 @@ (Field("motor_temperature") :> d.motor_temp), t)
          [] m.variant = "StatusMessage5" ->
                update_all(self, Field("motor_battery_voltage") :> d.input_voltage, t)
          [] OTHER -> self

\* The arm EoiCanData::Mppt
ingest_mppt(self, m, t) ==
    LET panel == panel_id(m)
    IN  IF panel = None
        THEN self
        ELSE LET channel_power == m.info.power
             IN  update_all(self,
                            Panel(panel.val) :>
                                <<Mul(channel_power.voltage_in, channel_power.current_in),
                                  channel_power.voltage_in, channel_power.current_in>>,
                            t)

\* The arm EoiCanData::Gnss: latitude and longitude are not kept
ingest_gnss(self, m, t) ==
    CASE m.variant = "GnssSpeedAndHeading" ->
            update_all(self, Field("speed_kmh") :> m.fields.speed_kmh, t)
      [] m.variant = "GnssDateTime" -> update_all(self, Field("time") :> m.fields, t)
      [] m.variant = "GnssStatus" -> update_all(self, Field("gnss_fix") :> (m.fields.fix /= 0), t)
      [] m.variant \in {"GnssLatitude", "GnssLongitude"} -> self

\* DisplayData::ingest_eoi_can_data, called at time t
ingest_eoi_can_data(self, m, t) ==
    CASE m.data = "EoiBattery" -> ingest_battery(self, m, t)
      [] m.data = "Throttle" -> ingest_throttle(self, m, t)
      [] m.data = "Vesc" -> ingest_vesc(self, m, t)
      [] m.data = "Mppt" -> ingest_mppt(self, m, t)
      [] m.data = "Gnss" -> ingest_gnss(self, m, t)

(***************************************************************************)
(* The environment of ingest: decoded messages are handed to               *)
(* ingest_eoi_can_data while the clock advances.                           *)
(***************************************************************************)
MaxIngests == 2
MaxIngestTime == 2

\* One message of every battery record
BatteryMessages ==
    {EoiBattery("ChargeAndDischargeCurrent", [charge_current |-> Num(2), discharge_current |-> Num(-3)]),
     EoiBattery("SocErrorFlagsAndBalancing",
                [state_of_charge |-> Num(97), error_flags |-> 1, balancing_status |-> 2]),
     EoiBattery("PackAndPerriCurrent", [pack_current |-> Num(4), perri_current |-> Num(-1)]),
     EoiBattery("CellVoltages1_4", [cell_voltage |-> <<Num(31), Num(32), Num(33), Num(34)>>]),
     EoiBattery("CellVoltages5_8", [cell_voltage |-> <<Num(35), Num(36), Num(37), Num(38)>>]),
     EoiBattery("CellVoltages9_12", [cell_voltage |-> <<Num(39), Num(40), Num(41), Num(42)>>]),
     EoiBattery("CellVoltages13_14PackAndStack",
                [cell_voltage |-> <<Num(43), Num(44)>>, pack_voltage |-> Num(50),
                 stack_voltage |-> Num(51)]),
     EoiBattery("TemperaturesAndStates",
                [temperatures |-> <<20, 21, -5, 23>>, ic_temperature |-> 30,
                 battery_state |-> "Idle", charge_state |-> "Enabled", discharge_state |-> "Enabled"]),
     EoiBattery("BatteryUptime", [uptime_ms |-> 1000])}

\* One message of every throttle record
ThrottleMessages ==
    {Throttle("Status", [value |-> Num(55), error |-> "ThrottleErrors"]),
     Throttle("Config", [control_type |-> "Rpm", lever_forward |-> 1, lever_backward |-> 2]),
     Throttle("ToVescDutyCycle", [setpoint |-> Num(1)]),
     Throttle("ToVescCurrent", [setpoint |-> Num(2)]),
     Throttle("ToVescRpm", [setpoint |-> Num(3)])}

\* One message of every motor controller record
VescMessages ==
    {Vesc("StatusMessage1", [rpm |-> 1200, total_current |-> Num(7), duty_cycle |-> Num(1)]),
     Vesc("StatusMessage2", [amp_hours_used |-> Num(1), amp_hours_generated |-> Num(2)]),
     Vesc("StatusMessage3", [watt_hours_used |-> Num(1), watt_hours_generated |-> Num(2)]),
     Vesc("StatusMessage4", [fet_temp |-> Num(40), motor_temp |-> Num(60),
                             total_input_current |-> Num(6), current_pid_position |-> Num(0)]),
     Vesc("StatusMessage5", [input_voltage |-> Num(48), tachometer |-> 9])}

\* One message of every GNSS record, the status with and without a fix
GnssMessages ==
    {Gnss("GnssSpeedAndHeading", [speed_kmh |-> Num(12), heading |-> Num(90)]),
     Gnss("GnssDateTime", [year |-> 2025, month |-> 6, day |-> 1, hours |-> 12, minutes |-> 0,
                           seconds |-> 0]),
     Gnss("GnssStatus", [fix |-> 0, sats |-> 3, sats_used |-> 0]),
     Gnss("GnssStatus", [fix |-> 3, sats |-> 9, sats_used |-> 7]),
     Gnss("GnssLatitude", [degrees |-> Num(52)]),
     Gnss("GnssLongitude", [degrees |-> Num(5)])}

\* The channel powers tried: two pairs whose products and members all differ,
\* and one with a NaN current
PowerPool ==
    {[voltage_in |-> Num(2), current_in |-> Num(3)],
     [voltage_in |-> Num(5), current_in |-> Num(7)],
     [voltage_in |-> Num(11), current_in |-> NAN]}

\* Every device 0..7 with every channel 0..3: the channel's power, another
\* record of the channel, and the records of the device
MpptMessages ==
    {MpptId(m, ChannelPower(c, p)) : m \in 0..7, c \in 0..3, p \in PowerPool}
    \cup {MpptId(m, ChannelOther(c)) : m \in 0..7, c \in 0..3}
    \cup {MpptId(m, DeviceInfo(k)) : m \in 0..7, k \in {"Power", "Status"}}

AllMessages == BatteryMessages \cup ThrottleMessages \cup VescMessages \cup GnssMessages
               \cup MpptMessages

InitIngest ==
    /\ display_data = DisplayData_default(0)
    /\ now = 0
    /\ ingest_msg = None
    /\ ingest_pre = DisplayData_default(0)
    /\ ingests = 0
    /\ rendered = None
    /\ dv = default(0) /\ dv_log = None /\ dv_op = [kind |-> "default"]
    /\ latest_can_frames = <<>> /\ dropped_frames = 0 /\ op = [kind |-> "new"]
    /\ pre = new /\ last_call = [id \in AllIds |-> None] /\ n_calls = 0
    /\ distinct_calls = TRUE /\ superseding_inserts = 0 /\ capacity_evictions = 0
    /\ ops = 0
    /\ frame = None /\ result = None
    /\ encoded = None /\ built = None
    /\ program = None /\ clock = 0 /\ rx_pc = None /\ rx_item = None /\ mutex = None
    /\ shared = None /\ chan = <<>> /\ produced = <<>> /\ c_pc = None /\ c_iter = 0
    /\ c_wait = 0 /\ last_update = 0 /\ since_drain = 0 /\ n_read = 0
    /\ ingested_log = <<>> /\ at_lock = <<>> /\ decoded_log = <<>> /\ cleared = <<>>
    /\ failed_at = -1 /\ drains = 0

Ingest(m) ==
    /\ ingests < MaxIngests
    /\ ingests' = ingests + 1
    /\ display_data' = ingest_eoi_can_data(display_data, m, now)
    /\ ingest_msg' = Some([m |-> m, at |-> now])
    /\ ingest_pre' = display_data
    /\ UNCHANGED <<now, rendered, ingest_idle_vars>>

IngestAny == \E m \in AllMessages : Ingest(m)

IngestTick ==
    /\ now < MaxIngestTime
    /\ now' = now + 1
    /\ UNCHANGED <<ingest_vars, ingest_idle_vars>>

NextIngest == IngestAny \/ IngestTick

SpecIngest == InitIngest /\ [][NextIngest]_vars

(***************************************************************************)
(* Properties of ingest_eoi_can_data                                       *)
(***************************************************************************)
\* The lookup table of the MPPT panels as <<mppt_id, channel, panel>>.
PanelTable ==
    {<<2, 1, 0>>, <<2, 2, 1>>, <<2, 3, 2>>, <<5, 0, 3>>, <<5, 1, 4>>, <<5, 2, 5>>,
     <<4, 1, 6>>, <<4, 2, 7>>, <<6, 0, 8>>, <<6, 1, 9>>, <<6, 2, 10>>}

Panels == 0..10

IsChannelPower(m) == m.data = "Mppt" /\ m.info.of = "Channel" /\ m.info.kind = "Power"

\* The panel cell a channel-power message must leave behind.
PanelCellOf(m, at) ==
    [value |-> Some(<<Mul(m.info.power.voltage_in, m.info.power.current_in),
                      m.info.power.voltage_in, m.info.power.current_in>>),
     last_updated |-> at]

\* C13: ingesting an MPPT channel-power message whose (mppt_id, channel) pair
\* is in the lookup table updates exactly the mapped mppt_panel_info element
\* with (voltage_in * current_in, voltage_in, current_in) and no other panel;
\* an unmapped pair, or another MPPT message, leaves every panel unchanged.
C13_MpptPanelMapping ==
    (ingest_msg /= None /\ ingest_msg.val.m.data = "Mppt") =>
        LET m == ingest_msg.val.m
            at == ingest_msg.val.at
            mapped == IF IsChannelPower(m)
                      THEN {p \in Panels : <<m.mppt_id, m.info.channel, p>> \in PanelTable}
                      ELSE {}
        IN  /\ Cardinality(mapped) <= 1
            /\ \A p \in Panels :
                  display_data[Panel(p)] =
                      IF p \in mapped THEN PanelCellOf(m, at) ELSE ingest_pre[Panel(p)]

\* C13 witness: the power of channel 2 of device 4 was ingested into panel 7
\* after panel 3 had been filled; panel 3 is as it was.
C13_Witness ==
    /\ ingest_msg /= None
    /\ IsChannelPower(ingest_msg.val.m)
    /\ ingest_msg.val.m.mppt_id = 4
    /\ ingest_msg.val.m.info.channel = 2
    /\ display_data[Panel(7)].value = Some(<<Num(35), Num(5), Num(7)>>)
    /\ ingest_pre[Panel(7)].value = None
    /\ display_data[Panel(3)].value /= None
    /\ ingest_msg.val.at > display_data[Panel(3)].last_updated

(***************************************************************************)
(* draw_display: the derived power values                                  *)
(***************************************************************************)
\* <field>.get().unwrap_or(&f32::NAN)
get_or_nan(cell, t) ==
    LET v == get(cell, t)
    IN  IF v = None THEN NAN ELSE v.val

\* The fields the derived power values are computed from
PowerInputs ==
    {Field("battery_voltage"), Field("battery_current_in"), Field("battery_current_out_motor"),
     Field("battery_current_out_peripherals"), Field("motor_battery_voltage"),
     Field("motor_battery_current")}

\* let power = voltage * current (the net power of the battery)
net_power(self, t) ==
    LET voltage == get_or_nan(self[Field("battery_voltage")], t)
        current == Add(Add(get_or_nan(self[Field("battery_current_in")], t),
                           get_or_nan(self[Field("battery_current_out_motor")], t)),
                       get_or_nan(self[Field("battery_current_out_peripherals")], t))
    IN  Mul(voltage, current)

input_power(self, t) ==
    Mul(get_or_nan(self[Field("battery_voltage")], t),
        get_or_nan(self[Field("battery_current_in")], t))

motor_power(self, t) ==
    Mul(get_or_nan(self[Field("battery_voltage")], t),
        get_or_nan(self[Field("battery_current_out_motor")], t))

peripherals_power(self, t) ==
    Mul(get_or_nan(self[Field("battery_voltage")], t),
        get_or_nan(self[Field("battery_current_out_peripherals")], t))

motor_battery_power(self, t) ==
    Mul(get_or_nan(self[Field("motor_battery_voltage")], t),
        get_or_nan(self[Field("motor_battery_current")], t))

\* The derived power values of one call of draw_display at time t; the clock
\* does not advance inside the call.
draw_display_powers(self, t) ==
    [power |-> net_power(self, t),
     input_power |-> input_power(self, t),
     motor_power |-> motor_power(self, t),
     peripherals_power |-> peripherals_power(self, t),
     motor_battery_power |-> motor_battery_power(self, t)]

(***************************************************************************)
(* The environment of draw_display: the messages that carry the inputs of  *)
(* the derived values are ingested, the clock advances, the display is     *)
(* drawn.                                                                  *)
(***************************************************************************)
MaxRenderIngests == 3
MaxRenderTime == 6

PowerMessages ==
    {m \in BatteryMessages :
        m.variant \in {"ChargeAndDischargeCurrent", "PackAndPerriCurrent",
                       "CellVoltages13_14PackAndStack"}}
    \cup {m \in VescMessages : m.variant \in {"StatusMessage4", "StatusMessage5"}}

InitRender ==
    /\ display_data = DisplayData_default(0)
    /\ now = 0
    /\ ingest_msg = None
    /\ ingest_pre = DisplayData_default(0)
    /\ ingests = 0
    /\ rendered = None
    /\ dv = default(0) /\ dv_log = None /\ dv_op = [kind |-> "default"]
    /\ latest_can_frames = <<>> /\ dropped_frames = 0 /\ op = [kind |-> "new"]
    /\ pre = new /\ last_call = [id \in AllIds |-> None] /\ n_calls = 0
    /\ distinct_calls = TRUE /\ superseding_inserts = 0 /\ capacity_evictions = 0
    /\ ops = 0
    /\ frame = None /\ result = None
    /\ encoded = None /\ built = None
    /\ program = None /\ clock = 0 /\ rx_pc = None /\ rx_item = None /\ mutex = None
    /\ shared = None /\ chan = <<>> /\ produced = <<>> /\ c_pc = None /\ c_iter = 0
    /\ c_wait = 0 /\ last_update = 0 /\ since_drain = 0 /\ n_read = 0
    /\ ingested_log = <<>> /\ at_lock = <<>> /\ decoded_log = <<>> /\ cleared = <<>>
    /\ failed_at = -1 /\ drains = 0

IngestPower(m) ==
    /\ ingests < MaxRenderIngests
    /\ ingests' = ingests + 1
    /\ display_data' = ingest_eoi_can_data(display_data, m, now)
    /\ UNCHANGED <<ingest_msg, ingest_pre, now, rendered, ingest_idle_vars>>

IngestAnyPower == \E m \in PowerMessages : IngestPower(m)

RenderTick ==
    /\ now < MaxRenderTime
    /\ now' = now + 1
    /\ UNCHANGED <<ingest_vars, ingest_idle_vars>>

Render ==
    /\ rendered' = Some([at |-> now,
                         inputs |-> [k \in PowerInputs |-> display_data[k]],
                         values |-> draw_display_powers(display_data, now)])
    /\ UNCHANGED <<display_data, ingest_msg, ingest_pre, ingests, now, ingest_idle_vars>>

NextRender == IngestAnyPower \/ RenderTick \/ Render

SpecRender == InitRender /\ [][NextRender]_vars

(***************************************************************************)
(* Properties of the derived power values                                  *)
(***************************************************************************)
\* The input fields of every derived value
InputsOf ==
    [power |-> {Field("battery_voltage"), Field("battery_current_in"),
                Field("battery_current_out_motor"), Field("battery_current_out_peripherals")},
     input_power |-> {Field("battery_voltage"), Field("battery_current_in")},
     motor_power |-> {Field("battery_voltage"), Field("battery_current_out_motor")},
     peripherals_power |-> {Field("battery_voltage"), Field("battery_current_out_peripherals")},
     motor_battery_power |-> {Field("motor_battery_voltage"), Field("motor_battery_current")}]

\* A cell that was never updated, or whose update is DISPLAY_VALUE_TIMEOUT old
Absent(cell, t) == cell.value = None \/ t - cell.last_updated >= DISPLAY_VALUE_TIMEOUT

Names(names) == {Field(n) : n \in names}

\* The fields a message is to refresh, by its record.
TargetsOf(m) ==
    CASE m.data = "EoiBattery" ->
            (CASE m.variant = "ChargeAndDischargeCurrent" ->
                      Names({"battery_current_in", "battery_current_out_motor"})
               [] m.variant = "SocErrorFlagsAndBalancing" ->
                      Names({"battery_state_of_charge", "battery_error_flags",
                             "battery_balancing_status"})
               [] m.variant = "PackAndPerriCurrent" ->
                      Names({"battery_current_out_peripherals", "battery_current_pack"})
               [] m.variant = "CellVoltages1_4" -> {Cell(i) : i \in 0..3}
               [] m.variant = "CellVoltages5_8" -> {Cell(i) : i \in 4..7}
               [] m.variant = "CellVoltages9_12" -> {Cell(i) : i \in 8..11}
               [] m.variant = "CellVoltages13_14PackAndStack" ->
                      {Cell(12), Cell(13), Field("battery_voltage")}
               [] m.variant = "TemperaturesAndStates" ->
                      {Temperature(i) : i \in 0..3}
                      \cup Names({"battery_state", "battery_charge_state",
                                  "battery_discharge_state"})
               [] m.variant = "BatteryUptime" -> Names({"battery_uptime_ms"}))
      [] m.data = "Throttle" ->
            IF m.variant = "Status" THEN Names({"throttle_value", "throttle_errors"}) ELSE {}
      [] m.data = "Vesc" ->
            (CASE m.variant = "StatusMessage1" ->
                      Names({"motor_rpm", "motor_current", "motor_duty_cycle"})
               [] m.variant = "StatusMessage4" ->
                      Names({"motor_battery_current", "motor_fet_temperature",
                             "motor_temperature"})
               [] m.variant = "StatusMessage5" -> Names({"motor_battery_voltage"})
               [] OTHER -> {})
      [] m.data = "Mppt" ->
            IF IsChannelPower(m)
            THEN {Panel(p) : p \in {q \in Panels : <<m.mppt_id, m.info.channel, q>> \in PanelTable}}
            ELSE {}
      [] m.data = "Gnss" ->
            (CASE m.variant = "GnssSpeedAndHeading" -> Names({"speed_kmh"})
               [] m.variant = "GnssDateTime" -> Names({"time"})
               [] m.variant = "GnssStatus" -> Names({"gnss_fix"})
               [] OTHER -> {})

\* A cell that holds a value written at the time at.
RefreshedAt(cell, at) == cell.value /= None /\ cell.last_updated = at

\* C19 as stated: for every message the decoder can produce, ingest refreshes
\* at least one field of the snapshot.
C19_Original ==
    ingest_msg /= None =>
        \E k \in Fields : RefreshedAt(display_data[k], ingest_msg.val.at)

\* C19 amended: ingest is a total dispatch; a message refreshes exactly the
\* fields of its record, and these are at least one for every record except
\* the GNSS latitude and longitude, the throttle records other than Status,
\* the motor controller status messages 2 and 3, and the MPPT messages that
\* are not the power of a mapped channel, which leave the snapshot as it was.
C19_RefreshesOrIgnores ==
    ingest_msg /= None =>
        LET m == ingest_msg.val.m
            at == ingest_msg.val.at
            ignored ==
                \/ m.data = "Gnss" /\ m.variant \in {"GnssLatitude", "GnssLongitude"}
                \/ m.data = "Throttle" /\ m.variant /= "Status"
                \/ m.data = "Vesc" /\ m.variant \in {"StatusMessage2", "StatusMessage3"}
                \/ m.data = "Mppt" /\ TargetsOf(m) = {}
        IN  /\ DOMAIN display_data = Fields
            /\ ignored <=> TargetsOf(m) = {}
            /\ ignored => display_data = ingest_pre
            /\ \A k \in Fields :
                  IF k \in TargetsOf(m)
                  THEN RefreshedAt(display_data[k], at)
                  ELSE display_data[k] = ingest_pre[k]

\* C19 witness: a GNSS latitude was ingested after another message had filled
\* a field at an earlier time; the snapshot is as it was.
C19_Witness ==
    /\ ingest_msg /= None
    /\ ingest_msg.val.m.data = "Gnss"
    /\ ingest_msg.val.m.variant = "GnssLatitude"
    /\ display_data = ingest_pre
    /\ \E k \in Fields : display_data[k].value /= None
                           /\ display_data[k].last_updated < ingest_msg.val.at

\* The first cell of the group of a cell-voltage record
CellGroups ==
    ("CellVoltages1_4" :> 0) @@ ("CellVoltages5_8" :> 4) @@ ("CellVoltages9_12" :> 8)
    @@ ("CellVoltages13_14PackAndStack" :> 12)

\* The last message ingested was a cell-voltage record
IsCellGroup == ingest_msg /= None /\ ingest_msg.val.m.data = "EoiBattery"
               /\ ingest_msg.val.m.variant \in DOMAIN CellGroups

\* A cell that holds the value v, written at the time at
Holds(cell, v, at) == cell = [value |-> Some(v), last_updated |-> at]

\* C22: after a cell-voltage record is ingested, the cells of its group
\* (0..3, 4..7, 8..11, and 12..13 with battery_voltage for the pack record)
\* hold the values of the record with the time of the call, and every other
\* field of the snapshot, value and timestamp, is as before the call; after
\* any message, every field its record does not target is as before the call.
C22_CellGroupUpdatesOwnCells ==
    ingest_msg /= None =>
        LET m == ingest_msg.val.m
            at == ingest_msg.val.at
        IN  /\ \A k \in Fields \ TargetsOf(m) : display_data[k] = ingest_pre[k]
            /\ IsCellGroup =>
                  LET first == CellGroups[m.variant]
                      values == m.fields.cell_voltage
                      group == {Cell(first + i - 1) : i \in 1..Len(values)}
                  IN  /\ Len(values) = IF first = 12 THEN 2 ELSE 4
                      /\ \A i \in 1..Len(values) :
                            Holds(display_data[Cell(first + i - 1)], values[i], at)
                      /\ first = 12 =>
                            Holds(display_data[Field("battery_voltage")], m.fields.pack_voltage, at)
                      /\ \A k \in Fields \ group :
                            (first = 12 /\ k = Field("battery_voltage"))
                            \/ display_data[k] = ingest_pre[k]

\* C22 witness: the cells 5-8 were ingested after the cells 1-4 at an earlier
\* time: the cells 0..3 keep their values and their older timestamp.
C22_Witness ==
    /\ IsCellGroup
    /\ ingest_msg.val.m.variant = "CellVoltages5_8"
    /\ ingest_msg.val.at > 0
    /\ \A i \in 0..3 : display_data[Cell(i)].value /= None
                         /\ display_data[Cell(i)].last_updated < ingest_msg.val.at
    /\ \A i \in 4..7 : display_data[Cell(i)].last_updated = ingest_msg.val.at
    /\ display_data[Cell(8)].value = None

(***************************************************************************)
(* CanFrame::from_encoded (eoi-can-decoder and draw-display)               *)
(***************************************************************************)
\* A from_encoded that keeps the first MAX_LEN bytes of a longer slice.
from_encoded_truncating(id, data) ==
    CanFrame(id, IF Len(data) > MAX_LEN THEN SubSeq(data, 1, MAX_LEN) ELSE data)

\* eoi-can-decoder: heapless::Vec::from_slice(data).expect("Data length exceeds MAX_LEN")
from_encoded(id, data) ==
    IF Len(data) <= MAX_LEN THEN CanFrame(id, data) ELSE Panic

\* draw-display: data.as_slice().try_into().expect("checked by const assert"),
\* behind const { assert!(LEN <= Self::MAX_LEN) }
from_encoded_const(id, data) ==
    IF Len(data) <= MAX_LEN THEN CanFrame(id, data) ELSE Panic

\* The longest slice tried
MaxEncodedLen == 10

\* The calls tried: the decoder's from_encoded takes a slice of any length; a
\* call of draw-display's from_encoded with LEN > MAX_LEN does not compile, so
\* the program holds none.
EncodedCalls ==
    {[crate |-> "eoi-can-decoder", id |-> id, data |-> data] :
        id \in {Standard(\h100), Extended(\h1337)},
        data \in UNION {Payloads(n) : n \in 0..MaxEncodedLen}}
    \cup {[crate |-> "draw-display", id |-> id, data |-> data] :
        id \in {Standard(\h100), Extended(\h1337)},
        data \in UNION {Payloads(n) : n \in 0..MAX_LEN}}

InitFromEncoded ==
    /\ encoded \in EncodedCalls
    /\ built = Pending
    /\ latest_can_frames = <<>> /\ dropped_frames = 0 /\ op = [kind |-> "new"]
    /\ pre = new /\ last_call = [id \in AllIds |-> None] /\ n_calls = 0
    /\ distinct_calls = TRUE /\ superseding_inserts = 0 /\ capacity_evictions = 0
    /\ ops = 0
    /\ dv = default(0) /\ now = 0 /\ dv_log = None /\ dv_op = [kind |-> "default"]
    /\ frame = None /\ result = None
    /\ display_data = None /\ ingest_msg = None /\ ingest_pre = None /\ ingests = 0 /\ rendered = None
    /\ program = None /\ clock = 0 /\ rx_pc = None /\ rx_item = None /\ mutex = None
    /\ shared = None /\ chan = <<>> /\ produced = <<>> /\ c_pc = None /\ c_iter = 0
    /\ c_wait = 0 /\ last_update = 0 /\ since_drain = 0 /\ n_read = 0
    /\ ingested_log = <<>> /\ at_lock = <<>> /\ decoded_log = <<>> /\ cleared = <<>>
    /\ failed_at = -1 /\ drains = 0

Build ==
    /\ built = Pending
    /\ built' = IF encoded.crate = "eoi-can-decoder"
                THEN from_encoded(encoded.id, encoded.data)
                ELSE from_encoded_const(encoded.id, encoded.data)
    /\ UNCHANGED <<encoded, frame_idle_vars>>

NextFromEncoded == Build

SpecFromEncoded == InitFromEncoded /\ [][NextFromEncoded]_vars

\* C20: every CanFrame has a payload of at most 8 bytes; from_encoded called
\* with more than 8 bytes panics and returns no frame, in particular none
\* with a truncated payload; with at most 8 bytes it returns them all.
C20_FromEncodedNeverTruncates ==
    built /= Pending =>
        IF Len(encoded.data) > 8
        THEN built = Panic
        ELSE /\ built = [id |-> encoded.id, data |-> encoded.data]
             /\ Len(built.data) <= 8

\* C20 witness: from_encoded was called with nine bytes and panicked.
C20_Witness ==
    /\ built = Panic
    /\ Len(encoded.data) = 9

(***************************************************************************)
(* The four programs around the telemetry core: a receive task reads the   *)
(* bus, a consumer loop drains what was received.                          *)
(*   simulator   (eoi-can-display-simulator): shared collector, std Mutex  *)
(*   mqtt        (eoi-can-to-mqtt):           shared collector, std Mutex  *)
(*   framebuffer (eoi-can-display-framebuffer): channel of frames, the     *)
(*               collector is local to the consumer                        *)
(*   firmware    (can-display-firmware):      channel of decoded messages  *)
(* The clock of a program counts its own unit: 10 ms in the simulator,     *)
(* 100 ms in the framebuffer, 1 s in the firmware, 10 s in the MQTT bridge.*)
(* Code between two awaits takes no time; time passes only while the       *)
(* consumer sleeps or waits for the channel.                               *)
(***************************************************************************)
Programs == {"simulator", "mqtt", "framebuffer", "firmware"}
SharedCollector == {"simulator", "mqtt"}

\* simulator: elapsed() > Duration::from_millis(100), sleep(Duration::from_millis(10))
SIM_UPDATE_PERIOD == 10
SIM_SLEEP == 1
\* simulator: Instant::now() - Duration::from_secs(100)
SIM_LONG_AGO == 10000
\* framebuffer: timeout(Duration::from_secs(1), ..), elapsed() > Duration::from_millis(100)
FB_RECV_TIMEOUT == 10
FB_UPDATE_PERIOD == 1
\* mqtt: sleep(Duration::from_secs(10))
MQTT_SLEEP == 1
\* firmware: Timer::after_secs(1), elapsed() > Duration::from_secs(30)
FW_SLEEP == 1
FW_SCREEN_PERIOD == 30
\* Channel<ThreadModeRawMutex, EoICanData, 100> and mpsc::channel::<CanFrame>(100)
CHANNEL_CAPACITY == 100

\* A channel that takes every message.
channel_never_full(ch) == FALSE

\* send(..).await completes when the channel has room
channel_full(ch) == Len(ch) >= CHANNEL_CAPACITY

\* A recv without its timeout.
recv_never_times_out(waited) == FALSE

\* tokio::time::timeout(Duration::from_secs(1), can_buffer_rx.recv())
recv_timed_out(waited) == waited >= FB_RECV_TIMEOUT

\* A consumer that does not survive a closed channel.
recv_closed_fatal == "dead"

\* if let Ok(Some(can_frame)) = ..: a closed channel (Ok(None)) is passed over
recv_closed_next == "check"

\* A consumer that iterates without taking the mutex.
lock_not_taken(m, who) == m

\* Mutex::lock by who: the guard is held until it is dropped
mutex_lock(m, who) == who

\* The sleep at the end of the consumer's loop
SleepOf(p) ==
    CASE p = "simulator" -> SIM_SLEEP
      [] p = "mqtt" -> MQTT_SLEEP
      [] p = "firmware" -> FW_SLEEP
      [] OTHER -> 0


(***************************************************************************)
(* The environment of the programs: frames and read errors on the bus      *)
(***************************************************************************)
MaxReads == 2
MaxClock == 12
MaxDrains == 3

\* The frames on the bus: two that decode, with different identifiers, and one
\* that does not
BusFrames ==
    {[id |-> Standard(\h100), data |-> <<0, 0, 0, 0, 0, 0, 0, 0>>],
     [id |-> Standard(\h101), data |-> <<0, 0, 0, 0, 0, 0, 0, 0>>],
     [id |-> Standard(\h7FF), data |-> <<>>]}

\* The decoded message number seq of the receive task
Item(seq, msg) == [seq |-> seq, msg |-> msg]

\* A channel that holds n decoded messages the consumer has not yet received.
\* The firmware starts in main's Timer::after_secs(1), with the receive task
\* spawned: the messages are those of the frames that arrived since.
PrefillChannel(n) ==
    [i \in 1..n |-> Item(i, parse_eoi_can_data(CanFrame(Standard(\h100), <<0, 0, 0, 0, 0, 0, 0, 0>>)).val)]

ChannelPrefills == {0, CHANNEL_CAPACITY - 1, CHANNEL_CAPACITY}

InitPipeline ==
    /\ program \in Programs
    /\ clock = 0
    /\ rx_pc = "read"
    /\ rx_item = None
    /\ mutex = "free"
    /\ shared = new
    /\ \E n \in ChannelPrefills :
          /\ (n > 0 => program = "firmware")
          /\ chan = PrefillChannel(n)
          /\ produced = PrefillChannel(n)
    /\ c_pc = CASE program = "simulator" -> "check"
                [] program = "mqtt" -> "lock"
                [] program = "framebuffer" -> "recv"
                [] program = "firmware" -> "sleep"
    /\ c_iter = 0
    /\ c_wait = 0
    /\ last_update = IF program = "simulator" THEN 0 - SIM_LONG_AGO ELSE 0
    /\ since_drain = 0
    /\ n_read = 0
    /\ ingested_log = <<>>
    /\ at_lock = <<>>
    /\ decoded_log = <<>>
    /\ cleared = <<>>
    /\ failed_at = -1
    /\ drains = 0
    /\ latest_can_frames = <<>> /\ dropped_frames = 0 /\ op = [kind |-> "new"]
    /\ pre = new /\ last_call = [id \in AllIds |-> None] /\ n_calls = 0
    /\ distinct_calls = TRUE /\ superseding_inserts = 0 /\ capacity_evictions = 0
    /\ ops = 0
    /\ dv = default(0) /\ now = 0 /\ dv_log = None /\ dv_op = [kind |-> "default"]
    /\ frame = None /\ result = None
    /\ display_data = None /\ ingest_msg = None /\ ingest_pre = None /\ ingests = 0 /\ rendered = None
    /\ encoded = None /\ built = None

\* Whether a bus read has failed
rx_failed == failed_at >= 0

(***************************************************************************)
(* The receive task                                                        *)
(***************************************************************************)
\* An executor that runs the firmware's receive task at any time.
rx_polled_any_time(p, consumer_pc) == TRUE

\* The hosts run on tokio's multi-threaded runtime: the receive task runs at
\* any time. The firmware runs both tasks on one cooperative executor: the
\* receive task is polled only while main is at its await, Timer::after_secs.
rx_polled(p, consumer_pc) == p = "firmware" => consumer_pc = "sleep"

RxMayRun == rx_polled(program, c_pc)

\* read_frame / can_rx.read returned a data frame. The hosts wrap it with
\* from_encoded and go on to insert or send it; the firmware decodes it and
\* sends the message, if there is one.
RxRead(f) ==
    /\ rx_pc = "read"
    /\ RxMayRun
    /\ n_read < MaxReads
    /\ n_read' = n_read + 1
    /\ IF program = "firmware"
       THEN LET decoded == parse_eoi_can_data(CanFrame(f.id, f.data))
            IN  IF decoded /= None
                THEN /\ rx_item' = Item(Len(produced) + 1, decoded.val)
                     /\ produced' = Append(produced, Item(Len(produced) + 1, decoded.val))
                     /\ rx_pc' = "send"
                ELSE UNCHANGED <<rx_item, produced, rx_pc>>
       ELSE /\ rx_item' = from_encoded(f.id, f.data)
            /\ rx_pc' = IF program \in SharedCollector THEN "locking" ELSE "send"
            /\ UNCHANGED produced
    /\ UNCHANGED <<program, clock, mutex, shared, chan, failed_at, consumer_vars,
                   pipeline_idle_vars>>

RxReadAny == \E f \in BusFrames : RxRead(f)

\* read_frame / can_rx.read returned an error. The hosts unwrap it: the task
\* panics, before it touches the mutex or the channel, and the runtime drops
\* it with its sender. The firmware logs the error and reads on.
RxError ==
    /\ rx_pc = "read"
    /\ RxMayRun
    /\ ~rx_failed
    /\ failed_at' = clock
    /\ rx_pc' = IF program = "firmware" THEN "read" ELSE "dead"
    /\ UNCHANGED <<program, clock, rx_item, mutex, shared, chan, produced, n_read,
                   consumer_vars, pipeline_idle_vars>>

\* can_collector_receiver.lock()
RxLock ==
    /\ rx_pc = "locking"
    /\ mutex = "free"
    /\ mutex' = mutex_lock(mutex, "rx")
    /\ rx_pc' = "locked"
    /\ UNCHANGED <<program, clock, rx_item, shared, chan, produced, n_read, failed_at,
                   consumer_vars, pipeline_idle_vars>>

\* collector.insert(embedded_frame), and the guard is dropped
RxInsert ==
    /\ rx_pc = "locked"
    /\ shared' = insert(shared, rx_item)
    /\ mutex' = "free"
    /\ rx_pc' = "read"
    /\ UNCHANGED <<program, clock, rx_item, chan, produced, n_read, failed_at, consumer_vars,
                   pipeline_idle_vars>>

\* can_buffer_tx.send(..).await / decoder_tx.send(..).await: suspended while
\* the channel is full
RxSend ==
    /\ rx_pc = "send"
    /\ RxMayRun
    /\ ~channel_full(chan)
    /\ chan' = Append(chan, rx_item)
    /\ rx_pc' = "read"
    /\ UNCHANGED <<program, clock, rx_item, mutex, shared, produced, n_read, failed_at,
                   consumer_vars, pipeline_idle_vars>>


\* The consumer is in a wait that is not over. When the channel is closed
\* the framebuffer's recv returns at once: the loop spins until the update
\* period has passed.
ConsumerWaits ==
    \/ c_pc = "sleep" /\ c_wait < SleepOf(program)
    \/ c_pc = "recv" /\ chan = <<>> /\ rx_pc /= "dead" /\ ~recv_timed_out(c_wait)
    \/ c_pc = "recv" /\ chan = <<>> /\ rx_pc = "dead" /\ clock - last_update <= FB_UPDATE_PERIOD
    \/ c_pc = "dead"

\* The receive task waits for the bus, for room in the channel, or is gone
RxWaits ==
    \/ rx_pc \in {"read", "dead"}
    \/ rx_pc = "send" /\ channel_full(chan)

(***************************************************************************)
(* The consumer loops                                                      *)
(***************************************************************************)
\* The drains are counted up to MaxDrains
Count(n) == IF n < MaxDrains THEN n + 1 ELSE n

\* The start of a drain: the frames to iterate are those stored now
BeginDrain ==
    /\ at_lock' = shared.latest_can_frames
    /\ decoded_log' = <<>>
    /\ c_iter' = 0
    /\ since_drain' = 0
    /\ drains' = Count(drains)

\* simulator: if last_time_updated_display.elapsed() > 100 ms { last_time_updated_display = now; ..
SimCheck ==
    /\ program = "simulator"
    /\ c_pc = "check"
    /\ IF clock - last_update > SIM_UPDATE_PERIOD
       THEN /\ last_update' = clock
            /\ c_pc' = "lock"
            /\ UNCHANGED c_wait
       ELSE /\ c_pc' = "sleep"
            /\ c_wait' = 0
            /\ UNCHANGED last_update
    /\ UNCHANGED <<program, clock, mutex, shared, chan, c_iter, since_drain, ingested_log, at_lock,
                   decoded_log, cleared, drains, rx_task_vars, pipeline_idle_vars>>

\* simulator, mqtt: if let Ok(mut can_collector) = shared_can_collector.lock()
ConsumerLock ==
    /\ program \in SharedCollector
    /\ c_pc = "lock"
    /\ mutex = "free"
    /\ mutex' = mutex_lock(mutex, "consumer")
    /\ c_pc' = "iter"
    /\ BeginDrain
    /\ UNCHANGED <<program, clock, shared, chan, c_wait, last_update, ingested_log, cleared,
                   rx_task_vars, pipeline_idle_vars>>

\* can_collector.iter().for_each(..): the next stored frame is decoded, and
\* ingested (merged into the JSON document by mqtt) when it is a message
ConsumerDecode ==
    /\ program /= "firmware"
    /\ c_pc = "iter"
    /\ c_iter < Len(iter(shared))
    /\ LET f == iter(shared)[c_iter + 1]
       IN  decoded_log' = Append(decoded_log, [frame |-> f, parsed |-> parse_eoi_can_data(f)])
    /\ c_iter' = c_iter + 1
    /\ UNCHANGED <<program, clock, mutex, shared, chan, c_pc, c_wait, last_update, since_drain,
                   ingested_log, at_lock, cleared, drains, rx_task_vars, pipeline_idle_vars>>

\* The iteration is over: can_collector.clear()
ConsumerClear ==
    /\ program /= "firmware"
    /\ c_pc = "iter"
    /\ c_iter >= Len(iter(shared))
    /\ cleared' = iter(shared)
    /\ shared' = clear(shared)
    /\ c_pc' = CASE program = "simulator" -> "unlock"
                 [] program = "mqtt" -> "publish"
                 [] program = "framebuffer" -> "draw"
    /\ UNCHANGED <<program, clock, mutex, chan, c_iter, c_wait, last_update, since_drain,
                   ingested_log, at_lock, decoded_log, drains, rx_task_vars, pipeline_idle_vars>>

\* mqtt: client.publish(mqtt_message), with the guard still held
MqttPublish ==
    /\ program = "mqtt"
    /\ c_pc = "publish"
    /\ c_pc' = "unlock"
    /\ UNCHANGED <<program, clock, mutex, shared, chan, c_iter, c_wait, last_update, since_drain,
                   ingested_log, at_lock, decoded_log, cleared, drains, rx_task_vars,
                   pipeline_idle_vars>>

\* The guard goes out of scope
ConsumerUnlock ==
    /\ c_pc = "unlock"
    /\ mutex' = "free"
    /\ c_pc' = IF program = "simulator" THEN "draw" ELSE "sleep"
    /\ c_wait' = 0
    /\ UNCHANGED <<program, clock, shared, chan, c_iter, last_update, since_drain, ingested_log,
                   at_lock, decoded_log, cleared, drains, rx_task_vars, pipeline_idle_vars>>

\* simulator, framebuffer: draw_display(&mut display, &display_data)
ConsumerDraw ==
    /\ c_pc = "draw"
    /\ c_pc' = IF program = "simulator" THEN "sleep" ELSE "recv"
    /\ c_wait' = 0
    /\ UNCHANGED <<program, clock, mutex, shared, chan, c_iter, last_update, since_drain,
                   ingested_log, at_lock, decoded_log, cleared, drains, rx_task_vars,
                   pipeline_idle_vars>>

\* The sleep at the end of the loop is over. The firmware's executor polls
\* main when the receive task is at an await that is pending.
ConsumerWake ==
    /\ c_pc = "sleep"
    /\ c_wait >= SleepOf(program)
    /\ program = "firmware" => RxWaits
    /\ c_pc' = CASE program = "simulator" -> "check"
                 [] program = "mqtt" -> "lock"
                 [] program = "firmware" -> "drain"
    /\ IF program = "firmware"
       THEN /\ since_drain' = 0
            /\ drains' = Count(drains)
            /\ at_lock' = chan
            /\ c_iter' = 0
       ELSE UNCHANGED <<since_drain, drains, at_lock, c_iter>>
    /\ UNCHANGED <<program, clock, mutex, shared, chan, c_wait, last_update, ingested_log,
                   decoded_log, cleared, rx_task_vars, pipeline_idle_vars>>

\* framebuffer: timeout(1 s, can_buffer_rx.recv()).await gives a frame, which
\* is inserted into the consumer's collector, or Ok(None) when the sender is
\* gone and the channel empty, or Err(Elapsed) after the timeout
FbRecv ==
    /\ program = "framebuffer"
    /\ c_pc = "recv"
    /\ IF chan /= <<>>
       THEN /\ shared' = insert(shared, Head(chan))
            /\ chan' = Tail(chan)
            /\ c_pc' = "check"
       ELSE /\ IF rx_pc = "dead"
               THEN c_pc' = recv_closed_next
               ELSE recv_timed_out(c_wait) /\ c_pc' = "check"
            /\ UNCHANGED <<shared, chan>>
    /\ UNCHANGED <<program, clock, mutex, c_iter, c_wait, last_update, since_drain, ingested_log,
                   at_lock, decoded_log, cleared, drains, rx_task_vars, pipeline_idle_vars>>

\* A framebuffer loop that sets its reference instant when it drains.
fb_reference_refreshed(reference, t) == t

\* framebuffer: let last_time_updated_display = Instant::now() is bound once,
\* before the loop, without mut: a drain at the time t leaves it as it is
fb_reference(reference, t) == reference

\* framebuffer: if last_time_updated_display.elapsed() > 100 ms { .. }
FbCheck ==
    /\ program = "framebuffer"
    /\ c_pc = "check"
    /\ IF clock - last_update > FB_UPDATE_PERIOD
       THEN /\ c_pc' = "iter"
            /\ BeginDrain
            /\ last_update' = fb_reference(last_update, clock)
            /\ UNCHANGED c_wait
       ELSE /\ c_pc' = "recv"
            /\ c_wait' = 0
            /\ UNCHANGED <<c_iter, since_drain, at_lock, decoded_log, drains, last_update>>
    /\ UNCHANGED <<program, clock, mutex, shared, chan, ingested_log, cleared,
                   rx_task_vars, pipeline_idle_vars>>

\* firmware: while let Ok(parsed_data) = CAN_DECODER_CHANNEL.try_receive() { ingest }
FwReceive ==
    /\ program = "firmware"
    /\ c_pc = "drain"
    /\ chan /= <<>>
    /\ ingested_log' = Append(ingested_log, Head(chan))
    /\ chan' = Tail(chan)
    /\ c_iter' = c_iter + 1
    /\ UNCHANGED <<program, clock, mutex, shared, c_pc, c_wait, last_update, since_drain,
                   at_lock, decoded_log, cleared, drains, rx_task_vars, pipeline_idle_vars>>

\* firmware: the channel is empty; the screen is updated when 30 s have
\* passed, the heartbeat frame is written, Timer::after_secs(1)
FwSleep ==
    /\ program = "firmware"
    /\ c_pc = "drain"
    /\ chan = <<>>
    /\ last_update' = IF clock - last_update > FW_SCREEN_PERIOD THEN clock ELSE last_update
    /\ c_pc' = "sleep"
    /\ c_wait' = 0
    /\ UNCHANGED <<program, clock, mutex, shared, chan, c_iter, since_drain, ingested_log, at_lock,
                   decoded_log, cleared, drains, rx_task_vars, pipeline_idle_vars>>

(***************************************************************************)
(* Time                                                                    *)
(***************************************************************************)
PipelineTick ==
    /\ clock < MaxClock
    /\ ConsumerWaits
    /\ RxWaits
    /\ clock' = clock + 1
    /\ c_wait' = c_wait + 1
    /\ since_drain' = since_drain + 1
    /\ UNCHANGED <<program, mutex, shared, chan, c_pc, c_iter, last_update, ingested_log, at_lock,
                   decoded_log, cleared, drains, rx_task_vars, pipeline_idle_vars>>

NextPipeline ==
    \/ RxReadAny \/ RxError \/ RxLock \/ RxInsert \/ RxSend
    \/ SimCheck \/ ConsumerLock \/ ConsumerDecode \/ ConsumerClear \/ MqttPublish
    \/ ConsumerUnlock \/ ConsumerDraw \/ ConsumerWake
    \/ FbRecv \/ FbCheck \/ FwReceive \/ FwSleep
    \/ PipelineTick

SpecPipeline == InitPipeline /\ [][NextPipeline]_vars

(***************************************************************************)
(* The claims about the consumer loops                                     *)
(***************************************************************************)
\* The longest a consumer waits between the beginnings of two drains. A frame
\* that reaches the framebuffer before its update period has passed restarts
\* the wait of recv without a drain.
WaitBound(p) ==
    CASE p = "simulator" -> SIM_UPDATE_PERIOD + SIM_SLEEP
      [] p = "mqtt" -> MQTT_SLEEP
      [] p = "framebuffer" -> FB_UPDATE_PERIOD + FB_RECV_TIMEOUT
      [] p = "firmware" -> FW_SLEEP

\* The frames a drain has decoded
FramesOf(log) == [i \in 1..Len(log) |-> log[i].frame]

DecodedMessages == {parse_eoi_can_data(CanFrame(f.id, f.data)).val :
                       f \in {g \in BusFrames : parse_eoi_can_data(CanFrame(g.id, g.data)) /= None}}

\* The message a suspended send holds
PendingSend == IF rx_pc = "send" THEN <<rx_item>> ELSE <<>>

C29_FramebufferDrainsEveryLoop ==
    program = "framebuffer" =>
        /\ last_update = 0
        /\ drains >= 1 =>
              /\ clock > FB_UPDATE_PERIOD
              /\ c_pc = "recv" => (iter(shared) = <<>> /\ get_dropped_frames(shared) = 0)
              /\ c_pc = "check" => (Len(iter(shared)) <= 1 /\ get_dropped_frames(shared) = 0)
        /\ (drains >= 2 /\ c_pc = "iter") =>
              (Len(at_lock) <= 1 /\ get_dropped_frames(shared) = 0)

\* C29 witness: the first drain took the two frames that had arrived in the
\* first 100 ms; a later drain, begun by a timeout of recv, found the
\* collector empty.
C29_Witness ==
    /\ program = "framebuffer"
    /\ drains >= 2
    /\ c_pc = "iter"
    /\ n_read = 2
    /\ at_lock = <<>>
    /\ since_drain = 0
    /\ clock >= FB_UPDATE_PERIOD + FB_RECV_TIMEOUT

\* C30: while the firmware's main loop is in its drain the receive task does
\* not run: the messages taken so far and the messages still in the channel
\* are together the messages that were in the channel when the drain began,
\* at most 100, so the loop ends after at most 100 messages.
C30_DrainLoopTerminates ==
    (program = "firmware" /\ c_pc = "drain") =>
        /\ Len(at_lock) <= CHANNEL_CAPACITY
        /\ c_iter <= CHANNEL_CAPACITY
        /\ c_iter + Len(chan) = Len(at_lock)
        /\ c_iter <= Len(ingested_log)
        /\ SubSeq(ingested_log, Len(ingested_log) - c_iter + 1, Len(ingested_log)) \o chan = at_lock
        /\ rx_pc \in {"read", "send"}
        /\ rx_pc = "send" => Len(at_lock) = CHANNEL_CAPACITY

\* C30 witness: a drain that began with a full channel and a suspended send
\* has taken all 100 messages; the channel is empty, the loop is about to end.
C30_Witness ==
    /\ program = "firmware"
    /\ c_pc = "drain"
    /\ c_iter = CHANNEL_CAPACITY
    /\ chan = <<>>
    /\ rx_pc = "send"
    /\ n_read = 1

(***************************************************************************)
(* One consumer from the bus to the display: frames arrive and are         *)
(* inserted into the collector, a drain decodes the stored frames, ingests *)
(* what they decoded to and clears the collector (simulator main.rs        *)
(* 102-119), while the clock advances in seconds.                          *)
(***************************************************************************)
MaxArrivals == 2
MaxCycleDrains == 2
MaxCycleClock == 6

cycle_idle_vars == <<latest_can_frames, dropped_frames, op, last_call, n_calls, distinct_calls,
                     superseding_inserts, capacity_evictions, ops, dv, dv_log, dv_op,
                     decoder_vars, frame_vars, ingest_msg, ingests, rendered, program, clock,
                     mutex, chan, rx_pc, rx_item, failed_at, c_pc, c_iter, c_wait, since_drain,
                     ingested_log, cleared>>

ThrottleCanIds == {Extended(\h1337), Standard(\h0337)}

IsStatusFrame(f) == f.id \in ThrottleCanIds /\ Len(f.data) = 8

IsConfigFrame(f) == f.id \in ThrottleCanIds /\ Len(f.data) = 6

\* The frames on the bus: a throttle status frame (value 1/512 * 100, no
\* error) and a throttle configuration frame under each throttle identifier,
\* and the battery uptime frame of the decoder's test
CycleFrames ==
    {CanFrame(id, <<0, 1, 0, 0, 0, 0, 0, 0>>) : id \in ThrottleCanIds}
    \cup {CanFrame(id, <<0, 0, 0, 0, 0, 0>>) : id \in ThrottleCanIds}
    \cup {CanFrame(Standard(\h108), <<\h6C, \hB0, \h22, \h3B>>)}

\* The message as ingest_eoi_can_data takes it. The display reads value and
\* error of a throttle status record; error holds the record's error flags.
\* Every other record is read by the field names the decoder gives it.
display_message(m) ==
    IF m.data = "Throttle" /\ m.variant = "Status"
    THEN Throttle("Status",
             [value |-> m.fields.value,
              error |-> [any |-> m.fields.error_any, twi |-> m.fields.error_twi,
                         no_eeprom |-> m.fields.error_no_eeprom,
                         gain_clipping |-> m.fields.error_gain_clipping,
                         gain_invalid |-> m.fields.error_gain_invalid,
                         deadman_missing |-> m.fields.error_deadman_missing,
                         impedance_high |-> m.fields.error_impedance_high]])
    ELSE m

\* can_collector.iter().for_each(|frame| if let Some(parsed_data) =
\* parse_eoi_can_data(frame) { display_data.ingest_eoi_can_data(parsed_data) })
RECURSIVE ingest_frames(_, _, _)
ingest_frames(self, frames, t) ==
    IF frames = <<>>
    THEN self
    ELSE LET parsed == parse_eoi_can_data(Head(frames))
         IN  ingest_frames(IF parsed = None
                           THEN self
                           ELSE ingest_eoi_can_data(self, display_message(parsed.val), t),
                           Tail(frames), t)

InitCycle ==
    /\ now = 0
    /\ shared = new
    /\ pre = new
    /\ display_data = DisplayData_default(0)
    /\ ingest_pre = DisplayData_default(0)
    /\ last_update = 0
    /\ produced = <<>>
    /\ at_lock = <<>>
    /\ decoded_log = <<>>
    /\ drains = 0
    /\ n_read = 0
    /\ ingest_msg = None /\ ingests = 0 /\ rendered = None
    /\ dv = default(0) /\ dv_log = None /\ dv_op = [kind |-> "default"]
    /\ latest_can_frames = <<>> /\ dropped_frames = 0 /\ op = [kind |-> "new"]
    /\ last_call = [id \in AllIds |-> None] /\ n_calls = 0
    /\ distinct_calls = TRUE /\ superseding_inserts = 0 /\ capacity_evictions = 0
    /\ ops = 0
    /\ frame = None /\ result = None
    /\ encoded = None /\ built = None
    /\ program = None /\ clock = 0 /\ rx_pc = None /\ rx_item = None /\ mutex = None
    /\ chan = <<>> /\ c_pc = None /\ c_iter = 0
    /\ c_wait = 0 /\ since_drain = 0
    /\ ingested_log = <<>> /\ cleared = <<>>
    /\ failed_at = -1

\* A frame read off the bus is inserted into the collector
CycleArrive(f) ==
    /\ n_read < MaxArrivals
    /\ n_read' = n_read + 1
    /\ shared' = insert(shared, f)
    /\ produced' = Append(produced, [frame |-> f, at |-> now])
    /\ UNCHANGED <<now, pre, display_data, ingest_pre, last_update, at_lock, decoded_log,
                   drains, cycle_idle_vars>>

CycleArriveAny == \E f \in CycleFrames : CycleArrive(f)

\* The drain: every stored frame is decoded and what it decoded to is
\* ingested, each update reading the clock; then the collector is cleared
CycleDrain ==
    /\ drains < MaxCycleDrains
    /\ drains' = drains + 1
    /\ last_update' = now
    /\ pre' = shared
    /\ decoded_log' = [i \in 1..Len(iter(shared)) |->
                          [frame |-> iter(shared)[i],
                           parsed |-> parse_eoi_can_data(iter(shared)[i])]]
    /\ ingest_pre' = display_data
    /\ display_data' = ingest_frames(display_data, iter(shared), now)
    /\ shared' = clear(shared)
    /\ at_lock' = produced
    /\ produced' = <<>>
    /\ UNCHANGED <<now, n_read, cycle_idle_vars>>

CycleTick ==
    /\ now < MaxCycleClock
    /\ now' = now + 1
    /\ UNCHANGED <<shared, pre, display_data, ingest_pre, last_update, produced, at_lock,
                   decoded_log, drains, n_read, cycle_idle_vars>>

NextCycle == CycleArriveAny \/ CycleDrain \/ CycleTick

SpecCycle == InitCycle /\ [][NextCycle]_vars

\* The fields a decoded frame of the last drain refreshed
Refreshed(e) == IF e.parsed = None THEN {} ELSE TargetsOf(display_message(e.parsed.val))

\* When the frame of a drained entry arrived: its last arrival of the cycle
ArrivedAt(e) ==
    LET at == {i \in 1..Len(at_lock) : at_lock[i].frame = e.frame}
    IN  at_lock[CHOOSE i \in at : \A j \in at : j <= i].at

\* C27: the validity of a field counts from the drain that ingested its
\* frame, not from the frame's arrival: whenever the frame arrived, a field
\* the last drain refreshed returns its value from get() exactly while less
\* than the timeout has passed since that drain.
C27_ValidityFromDrainTime ==
    drains >= 1 =>
        \A i \in 1..Len(decoded_log) :
            \A k \in Refreshed(decoded_log[i]) :
                /\ display_data[k].last_updated = last_update
                /\ ArrivedAt(decoded_log[i]) <= last_update
                /\ (get(display_data[k], now) /= None)
                      <=> (now < last_update + DISPLAY_VALUE_TIMEOUT)

\* C27 witness: the uptime frame waited in the collector for the whole
\* timeout before it was drained; more than the timeout after its arrival
\* get() still returns its value.
C27_Witness ==
    /\ drains = 1
    /\ Len(decoded_log) = 1
    /\ decoded_log[1].frame.id = Standard(\h108)
    /\ ArrivedAt(decoded_log[1]) = 0
    /\ last_update = DISPLAY_VALUE_TIMEOUT
    /\ now = last_update + 1
    /\ get(display_data[Field("battery_uptime_ms")], now) = Some(decoded_log[1].parsed.val.fields.uptime_ms)

\* The arrivals of the drained cycle in which a throttle status frame was
\* followed by a configuration frame of its identifier, the last of it
Superseded(id) ==
    \E i, j \in 1..Len(at_lock) :
        /\ i < j
        /\ at_lock[i].frame.id = id /\ IsStatusFrame(at_lock[i].frame)
        /\ at_lock[j].frame.id = id /\ IsConfigFrame(at_lock[j].frame)
        /\ \A k \in (j + 1)..Len(at_lock) : at_lock[k].frame.id /= id

ThrottleFields == {Field("throttle_value"), Field("throttle_errors")}

====
